---- MODULE Spec2Model ----
(***************************************************************************)
(* A model of the virtual filesystem core of the kernel: the ramdisk      *)
(* backend (src/src/fs/ramdisk.rs), the mount overlay                     *)
(* (src/src/fs/mount.rs) and path resolution (src/src/fs/vfs.rs).         *)
(*                                                                         *)
(* Names, paths and file content are sequences of bytes (natural numbers, *)
(* 47 is '/', 46 is '.').  A ramdisk inode is identified by the id that   *)
(* next_inode() gave it; a handle the caller may hold to it is that id.   *)
(***************************************************************************)
EXTENDS Naturals, Integers, Sequences, FiniteSets, TLC

VARIABLES
    nodes,       \* ramdisk inodes ever created: id -> RamdiskINode record
    next_inode,  \* the NEXT_INODE counter
    ramdisks,    \* the Ramdisk instances alive, by the id of their root inode
    mountfs,     \* the MountFS instances ever made: index -> MountFS record
    cur,         \* the MountedNode handle the caller holds
    rs,          \* the resolve_follow call in progress: its locals
    last,        \* the call made last, with what it returned
    threads,     \* the concurrent callers: thread -> the call it is in
    locks,       \* the write guards alive: <<node, thread>>
    calls,       \* the calls the concurrent callers have made
    interrupts,  \* the interrupt flag of the processor
    devices      \* the registry of the DevFS: name -> device

vars ==
    <<nodes, next_inode, ramdisks, mountfs, cur, rs, last, threads, locks,
      calls, interrupts, devices>>

mountVars == <<mountfs, cur>>

resolveVars == <<rs>>

concVars == <<threads, locks, calls, interrupts>>

devVars == <<devices>>

----------------------------------------------------------------------------
(* Bounds of the model *)

\* ids are handed out while next_inode <= MaxNodes
MaxNodes == 3

\* the names the callers pass: "a" and "b"
NameA == <<97>>
NameB == <<98>>
Names == {NameA, NameB}

----------------------------------------------------------------------------
(* vfs.rs: the names every directory answers *)

Slash == 47
DotName == <<46>>
DotDotName == <<46, 46>>

FileTypes == {"File", "Directory", "SymbolicLink"}

NoNode == 0

\* no MountedNode (Option::None)
NoHandle == [inode |-> NoNode, fs |-> NoNode]

\* no resolve_follow call
NoResolve == [pc |-> "none"]

\* the threads calling into one ramdisk at the same time
Threads == {1, 2}

\* a thread in no call
Idle == [pc |-> "idle"]

\* DevFS::new: the empty registry
NoDevices == <<>>

\* a single caller: no thread is in a call and no guard is alive;
\* interrupts are enabled
NoCallers ==
    /\ threads = [t \in Threads |-> Idle]
    /\ locks = {}
    /\ calls = 0
    /\ interrupts = TRUE

Result(res, val, ns, nx) == [res |-> res, val |-> val, ns |-> ns, nx |-> nx]

----------------------------------------------------------------------------
(* ramdisk.rs *)

\* permissions of a new node: 0o777
DefaultPermissions == 511

\* fs is the id of the root inode of the owning Ramdisk (the Weak<Ramdisk>);
\* the fields of the stored INodeMetadata are kept flat in the record, and
\* the permissions argument of create is DefaultPermissions
RamdiskINode(parent, type, fs) ==
    [parent_ref |-> parent, children |-> <<>>, type_ |-> type, links |-> 1,
     content |-> <<>>, filesystem |-> fs,
     access_time |-> 0, modification_time |-> 0, change_time |-> 0,
     permissions |-> DefaultPermissions, uid |-> 0, gid |-> 0]

\* Ramdisk::new: the root is a directory that is its own parent
RamdiskNew(ns, nx) ==
    Result("Ok", nx, ns @@ (nx :> RamdiskINode(nx, "Directory", nx)), nx + 1)

HasChild(ns, i, name) == name \in DOMAIN ns[i].children

\* find that takes "." for ".."
RdFindParent(ns, nx, i, name) ==
    IF ns[i].type_ # "Directory" THEN Result("NotDirectory", NoNode, ns, nx)
    ELSE IF name \in {DotName, DotDotName}
    THEN Result("Ok", ns[i].parent_ref, ns, nx)
    ELSE IF HasChild(ns, i, name) THEN Result("Ok", ns[i].children[name], ns, nx)
    ELSE Result("EntryNotFound", NoNode, ns, nx)

RdFind(ns, nx, i, name) ==
    IF ns[i].type_ # "Directory" THEN Result("NotDirectory", NoNode, ns, nx)
    ELSE IF name = DotName THEN Result("Ok", i, ns, nx)
    ELSE IF name = DotDotName THEN Result("Ok", ns[i].parent_ref, ns, nx)
    ELSE IF HasChild(ns, i, name) THEN Result("Ok", ns[i].children[name], ns, nx)
    ELSE Result("EntryNotFound", NoNode, ns, nx)

\* Insert that keeps an entry of the same name
InsertKeepsOld(children, name, id) ==
    [n \in DOMAIN children \cup {name} |->
        IF n \in DOMAIN children THEN children[n] ELSE id]

\* children.insert replaces an entry of the same name
Insert(children, name, id) ==
    [n \in DOMAIN children \cup {name} |-> IF n = name THEN id ELSE children[n]]

\* Remove that takes nothing out
RemoveNothing(children, name) == children

Remove(children, name) ==
    [n \in DOMAIN children \ {name} |-> children[n]]

\* create that does not take its id from the counter for good: the next
\* node is given the same one
RdCreateSameId(ns, nx, i, name, type) ==
    IF ns[i].type_ # "Directory" THEN Result("NotDirectory", NoNode, ns, nx)
    ELSE LET new_file == RamdiskINode(i, type, ns[i].filesystem)
             withNew == [k \in DOMAIN ns \cup {nx} |->
                            IF k = nx THEN new_file ELSE ns[k]]
         IN Result("Ok", nx,
                   [withNew EXCEPT ![i].children = Insert(@, name, nx)],
                   nx)

RdCreate(ns, nx, i, name, type) ==
    IF ns[i].type_ # "Directory" THEN Result("NotDirectory", NoNode, ns, nx)
    ELSE LET new_file == RamdiskINode(i, type, ns[i].filesystem)
             withNew == ns @@ (nx :> new_file)
         IN Result("Ok", nx,
                   [withNew EXCEPT ![i].children = Insert(@, name, nx)],
                   nx + 1)

Min(a, b) == IF a < b THEN a ELSE b

\* Vec::resize(new_len, 0)
Resize(content, new_len) ==
    [k \in 1..new_len |-> IF k <= Len(content) THEN content[k] ELSE 0]

\* val is the number of bytes read, data the bytes copied to the front of buf
RdReadAt(ns, nx, i, offset, buf_len) ==
    IF ns[i].type_ = "Directory"
    THEN [res |-> "IsDirectory", val |-> 0, data |-> <<>>]
    ELSE LET start == Min(Len(ns[i].content), offset)
             end == Min(Len(ns[i].content), offset + buf_len)
             src == SubSeq(ns[i].content, start + 1, end)
         IN [res |-> "Ok", val |-> Len(src), data |-> src]

\* write_at that puts buf at the front of the content whatever offset is
RdWriteAtFront(ns, nx, i, offset, buf) ==
    IF ns[i].type_ = "Directory" THEN Result("IsDirectory", 0, ns, nx)
    ELSE LET grown == IF Len(buf) > Len(ns[i].content)
                      THEN Resize(ns[i].content, Len(buf))
                      ELSE ns[i].content
             written == [k \in 1..Len(grown) |->
                            IF k <= Len(buf) THEN buf[k] ELSE grown[k]]
         IN Result("Ok", Len(buf), [ns EXCEPT ![i].content = written], nx)

RdWriteAt(ns, nx, i, offset, buf) ==
    IF ns[i].type_ = "Directory" THEN Result("IsDirectory", 0, ns, nx)
    ELSE LET grown == IF offset + Len(buf) > Len(ns[i].content)
                      THEN Resize(ns[i].content, offset + Len(buf))
                      ELSE ns[i].content
             written == [k \in 1..Len(grown) |->
                            IF k > offset /\ k <= offset + Len(buf)
                            THEN buf[k - offset] ELSE grown[k]]
         IN Result("Ok", Len(buf), [ns EXCEPT ![i].content = written], nx)

\* metadata(): the stored metadata with size taken from the content
RdMetadata(ns, i) ==
    [inode |-> i, size |-> Len(ns[i].content),
     access_time |-> ns[i].access_time,
     modification_time |-> ns[i].modification_time,
     change_time |-> ns[i].change_time, type_ |-> ns[i].type_,
     permissions |-> ns[i].permissions, links |-> ns[i].links,
     uid |-> ns[i].uid, gid |-> ns[i].gid]

\* set_metadata that stores the whole record it is given
RdSetMetadataAll(ns, nx, i, metadata) ==
    Result("Ok", NoNode,
           [ns EXCEPT ![i].access_time = metadata.access_time,
                      ![i].modification_time = metadata.modification_time,
                      ![i].change_time = metadata.change_time,
                      ![i].permissions = metadata.permissions,
                      ![i].uid = metadata.uid,
                      ![i].gid = metadata.gid,
                      ![i].type_ = metadata.type_,
                      ![i].links = metadata.links,
                      ![i].content = Resize(@, metadata.size)],
           nx)

RdSetMetadata(ns, nx, i, metadata) ==
    Result("Ok", NoNode,
           [ns EXCEPT ![i].access_time = metadata.access_time,
                      ![i].modification_time = metadata.modification_time,
                      ![i].change_time = metadata.change_time,
                      ![i].permissions = metadata.permissions,
                      ![i].uid = metadata.uid,
                      ![i].gid = metadata.gid],
           nx)

\* RdLink that puts a copy of other under the name, a node of its own
RdLinkCopies(ns, nx, i, name, other) ==
    IF other = i THEN Result("Deadlock", NoNode, ns, nx)
    ELSE IF ns[i].type_ # "Directory" THEN Result("NotDirectory", NoNode, ns, nx)
    ELSE IF ns[other].type_ = "Directory" THEN Result("IsDirectory", NoNode, ns, nx)
    ELSE IF HasChild(ns, i, name) THEN Result("EntryExists", NoNode, ns, nx)
    ELSE Result("Ok", NoNode,
                [ns @@ (nx :> ns[other]) EXCEPT
                    ![i].children = Insert(@, name, nx),
                    ![other].links = @ + 1],
                nx + 1)

\* RdLink without the test that other is no directory
RdLinkAnyType(ns, nx, i, name, other) ==
    IF other = i THEN Result("Deadlock", NoNode, ns, nx)
    ELSE IF ns[i].type_ # "Directory" THEN Result("NotDirectory", NoNode, ns, nx)
    ELSE IF HasChild(ns, i, name) THEN Result("EntryExists", NoNode, ns, nx)
    ELSE Result("Ok", NoNode,
                [ns EXCEPT ![i].children = Insert(@, name, other),
                           ![other].links = @ + 1],
                nx)

\* self.write() and then other.write(): the second never returns when other
\* is self, the lock is not reentrant
RdLink(ns, nx, i, name, other) ==
    IF other = i THEN Result("Deadlock", NoNode, ns, nx)
    ELSE IF ns[i].type_ # "Directory" THEN Result("NotDirectory", NoNode, ns, nx)
    ELSE IF ns[other].type_ = "Directory" THEN Result("IsDirectory", NoNode, ns, nx)
    ELSE IF HasChild(ns, i, name) THEN Result("EntryExists", NoNode, ns, nx)
    ELSE Result("Ok", NoNode,
                [ns EXCEPT ![i].children = Insert(@, name, other),
                           ![other].links = @ + 1],
                nx)

\* RdUnlink that leaves the link count of the target alone
RdUnlinkKeepsLinks(ns, nx, i, name) ==
    IF ns[i].type_ # "Directory" THEN Result("NotDirectory", NoNode, ns, nx)
    ELSE IF name \in {DotName, DotDotName}
         THEN Result("DirectoryNotEmpty", NoNode, ns, nx)
    ELSE IF ~HasChild(ns, i, name) THEN Result("EntryNotFound", NoNode, ns, nx)
    ELSE IF DOMAIN ns[ns[i].children[name]].children # {}
         THEN Result("DirectoryNotEmpty", NoNode, ns, nx)
    ELSE Result("Ok", NoNode, [ns EXCEPT ![i].children = Remove(@, name)], nx)

RdUnlink(ns, nx, i, name) ==
    IF ns[i].type_ # "Directory" THEN Result("NotDirectory", NoNode, ns, nx)
    ELSE IF name \in {DotName, DotDotName}
         THEN Result("DirectoryNotEmpty", NoNode, ns, nx)
    ELSE IF ~HasChild(ns, i, name) THEN Result("EntryNotFound", NoNode, ns, nx)
    ELSE LET other == ns[i].children[name]
         IN IF other = i THEN Result("Deadlock", NoNode, ns, nx)
            ELSE IF DOMAIN ns[other].children # {}
                 THEN Result("DirectoryNotEmpty", NoNode, ns, nx)
            ELSE Result("Ok", NoNode,
                        [ns EXCEPT ![other].links = @ - 1,
                                   ![i].children = Remove(@, name)],
                        nx)

\* RdMove without the unlink of the old name
RdMoveKeepsOld(ns, nx, i, old_name, target, new_name) ==
    LET file == RdFind(ns, nx, i, old_name)
    IN IF file.res # "Ok" THEN file
       ELSE RdLink(ns, nx, target, new_name, file.val)

RdMove(ns, nx, i, old_name, target, new_name) ==
    LET file == RdFind(ns, nx, i, old_name)
    IN IF file.res # "Ok" THEN file
       ELSE LET linked == RdLink(ns, nx, target, new_name, file.val)
            IN IF linked.res # "Ok" THEN linked
               ELSE LET unlinked == RdUnlink(linked.ns, nx, i, old_name)
                    IN IF unlinked.res = "Ok" THEN unlinked
                       ELSE LET undone == RdUnlink(linked.ns, nx, target, new_name)
                            IN IF undone.res # "Ok" THEN undone
                               ELSE Result(unlinked.res, NoNode, undone.ns, nx)

----------------------------------------------------------------------------
(* The calls a single caller makes, one after the other, on handles to    *)
(* ramdisk inodes.  A call that never returns ends the run.               *)

Call(op, self, name, other, name2, r) ==
    [op |-> op, self |-> self, name |-> name, other |-> other,
     name2 |-> name2, res |-> r.res, val |-> r.val]

NoName == <<>>

Returned == last.res \notin {"Deadlock", "Panic"}

Ids == DOMAIN nodes

Apply(op, self, name, other, name2, r) ==
    /\ nodes' = r.ns
    /\ next_inode' = r.nx
    /\ last' = Call(op, self, name, other, name2, r)
    /\ UNCHANGED <<mountVars, resolveVars, concVars, devVars>>

Init ==
    /\ nodes = <<>>
    /\ next_inode = 1
    /\ ramdisks = {}
    /\ mountfs = <<>>
    /\ cur = NoHandle
    /\ rs = NoResolve
    /\ NoCallers
    /\ devices = NoDevices
    /\ last = Call("init", NoNode, NoName, NoNode, NoName,
                   Result("Ok", NoNode, <<>>, 1))

New ==
    /\ Returned
    /\ next_inode <= MaxNodes
    /\ Apply("new", NoNode, NoName, NoNode, NoName, RamdiskNew(nodes, next_inode))
    /\ ramdisks' = ramdisks \cup {next_inode}

Create ==
    /\ Returned
    /\ next_inode <= MaxNodes
    /\ \E i \in Ids, name \in Names, type \in FileTypes :
          Apply("create", i, name, NoNode, NoName,
                RdCreate(nodes, next_inode, i, name, type))
    /\ UNCHANGED ramdisks

Link ==
    /\ Returned
    /\ \E i \in Ids, name \in Names, other \in Ids :
          Apply("link", i, name, other, NoName,
                RdLink(nodes, next_inode, i, name, other))
    /\ UNCHANGED ramdisks

Unlink ==
    /\ Returned
    /\ \E i \in Ids, name \in Names \cup {DotName, DotDotName} :
          Apply("unlink", i, name, NoNode, NoName,
                RdUnlink(nodes, next_inode, i, name))
    /\ UNCHANGED ramdisks

Move ==
    /\ Returned
    /\ \E i \in Ids, old_name \in Names, target \in Ids, new_name \in Names :
          Apply("move_", i, old_name, target, new_name,
                RdMove(nodes, next_inode, i, old_name, target, new_name))
    /\ UNCHANGED ramdisks

Find ==
    /\ Returned
    /\ \E i \in Ids, name \in Names \cup {DotName, DotDotName} :
          Apply("find", i, name, NoNode, NoName,
                RdFind(nodes, next_inode, i, name))
    /\ UNCHANGED ramdisks

Next == New \/ Create \/ Link \/ Unlink \/ Move \/ Find

Spec == Init /\ [][Next]_vars

----------------------------------------------------------------------------
(* Claims about the ramdisk calls *)

\* find(name) on directory dir returns the object o
Under(ns, dir, name, o) ==
    /\ ns[dir].type_ = "Directory"
    /\ HasChild(ns, dir, name)
    /\ ns[dir].children[name] = o

\* the step is a move_ that returns, of a non-directory entry of a directory
MovesEntry ==
    /\ last'.op = "move_"
    /\ last'.res # "Deadlock"
    /\ nodes[last'.self].type_ = "Directory"
    /\ HasChild(nodes, last'.self, last'.name)
    /\ nodes[nodes[last'.self].children[last'.name]].type_ # "Directory"

Moved == nodes[last'.self].children[last'.name]

\* target/new_name is another place than self/old_name
OtherPlace == last'.other # last'.self \/ last'.name2 # last'.name

C8_LinkDirectoryReturns ==
    /\ (/\ last.op = "link"
        /\ nodes[last.self].type_ = "Directory"
        /\ nodes[last.other].type_ = "Directory") => last.res = "IsDirectory"
    /\ (/\ last.op = "move_"
        /\ Under(nodes, last.self, last.name, last.other)
        /\ nodes[last.other].type_ = "Directory") => last.res = "IsDirectory"

----------------------------------------------------------------------------
(* mount.rs *)

\* fs is a Ramdisk, named by the id of its root inode
MountFS(fs, self_mountpoint) ==
    [inner |-> fs, mountpoints |-> <<>>, self_mountpoint |-> self_mountpoint]

MountedNode(inode, fs) == [inode |-> inode, fs |-> fs]

\* MountFS::root: inner.root() paired with this MountFS
MountFSRoot(ms, m) == MountedNode(ms[m].inner, m)

IsMountPoint(ms, h) == h.inode \in DOMAIN ms[h.fs].mountpoints

\* overlaid_inode that never substitutes the mounted root
overlaid_inode_self(ms, h) == h

overlaid_inode(ms, h) ==
    IF IsMountPoint(ms, h)
    THEN MountFSRoot(ms, ms[h.fs].mountpoints[h.inode])
    ELSE h

\* is_root that takes no inode for a root: ".." never leaves a mount
is_root_never(ns, h) == FALSE

\* inode.filesystem().root() has the id of inode
is_root(ns, h) == ns[h.inode].filesystem = h.inode

MResult(res, val) == [res |-> res, val |-> val]

RECURSIVE MnFind(_, _, _, _)
MnFind(ns, ms, h, name) ==
    IF ns[h.inode].type_ # "Directory" THEN MResult("NotDirectory", NoHandle)
    ELSE IF name = DotName THEN MResult("Ok", h)
    ELSE IF name = DotDotName
         THEN IF is_root(ns, h)
              THEN IF ms[h.fs].self_mountpoint # NoHandle
                   THEN MnFind(ns, ms, ms[h.fs].self_mountpoint, DotDotName)
                   ELSE MResult("Ok", h)
              ELSE LET found == RdFind(ns, 0, h.inode, name)
                   IN IF found.res # "Ok" THEN MResult(found.res, NoHandle)
                      ELSE MResult("Ok", MountedNode(found.val, h.fs))
    ELSE LET found == RdFind(ns, 0, overlaid_inode(ms, h).inode, name)
         IN IF found.res # "Ok" THEN MResult(found.res, NoHandle)
            ELSE MResult("Ok", overlaid_inode(ms, MountedNode(found.val, h.fs)))

\* MnMount without the test for a directory
MnMountAnywhere(ns, ms, h, fs) ==
    [res |-> "Ok", val |-> Len(ms) + 1,
     ms |-> [Append(ms, MountFS(fs, h)) EXCEPT
                ![h.fs].mountpoints = Insert(@, h.inode, Len(ms) + 1)]]

\* val is the index of the new MountFS, ms the MountFS instances afterwards
MnMount(ns, ms, h, fs) ==
    IF ns[h.inode].type_ # "Directory"
    THEN [res |-> "NotDirectory", val |-> 0, ms |-> ms]
    ELSE LET mounted_fs == Len(ms) + 1
             withNew == Append(ms, MountFS(fs, h))
         IN [res |-> "Ok", val |-> mounted_fs,
             ms |-> [withNew EXCEPT ![h.fs].mountpoints =
                                        Insert(@, h.inode, mounted_fs)]]

MnUnlink(ns, nx, ms, h, name) ==
    IF IsMountPoint(ms, h) THEN Result("Busy", NoNode, ns, nx)
    ELSE RdUnlink(ns, nx, h.inode, name)

\* val is the inode of the new MountedNode, whose fs is that of h
MnCreate(ns, nx, h, name, type) == RdCreate(ns, nx, h.inode, name, type)

----------------------------------------------------------------------------
(* lib.rs: the two ramdisks kmain builds, and the MountFS over the second *)

Tmp == <<116, 109, 112>>
Folder == <<102, 111, 108, 100, 101, 114>>
HelloTxt == <<104, 101, 108, 108, 111, 46, 116, 120, 116>>
TextTxt == <<116, 101, 120, 116, 46, 116, 120, 116>>
KMainNames == {Tmp, Folder, HelloTxt, TextTxt}

\* the next call of a chain of calls that all return Ok
AndCreate(r, i, name, type) == RdCreate(r.ns, r.nx, i, name, type)
AndWrite(r, i, buf) == [RdWriteAt(r.ns, r.nx, i, 0, buf) EXCEPT !.val = i]

\* lines 87-100: ramdisk (1) with hello.txt (2), folder (3), folder/hello.txt (4)
KMainRamdisk ==
    LET root == RamdiskNew(<<>>, 1)
        hello == AndWrite(AndCreate(root, root.val, HelloTxt, "File"), 2,
                     <<84, 104, 105, 115, 32, 105, 115, 32, 97, 32,
                       102, 105, 108, 101, 33>>)
        folder == AndCreate(hello, root.val, Folder, "Directory")
    IN AndWrite(AndCreate(folder, folder.val, HelloTxt, "File"), 4,
                <<84, 104, 105, 115, 32, 105, 115, 32, 97, 110, 111, 116,
                  104, 101, 114, 32, 102, 105, 108, 101>>)

\* lines 102-107: root_ramdisk (5) with tmp (6) and text.txt (7)
KMainRootRamdisk ==
    LET root == RamdiskNew(KMainRamdisk.ns, KMainRamdisk.nx)
        tmp == AndCreate(root, root.val, Tmp, "Directory")
    IN AndWrite(AndCreate(tmp, root.val, TextTxt, "File"), 7,
                <<116, 101, 115, 116, 32, 102, 105, 108, 101>>)

KMainRamdiskRoot == 1
KMainRootRamdiskRoot == 5

\* the ids kmain has used up
KMainNodes == 7

----------------------------------------------------------------------------
(* The calls of a single caller on MountedNodes, from the state kmain has *)
(* reached when it makes the MountFS over root_ramdisk (line 109).        *)

\* the MountFS instances that exist while this many may yet be made
MaxMounts == 2

\* the inodes a run may create on top of those of kmain
MaxCreated == 1

\* the call made last, on the MountedNode self (on the MountFS other, for
\* root); what find returned is the handle the caller then holds
MCall(op, self, name, other, res) ==
    [op |-> op, self |-> self, name |-> name, other |-> other, res |-> res]

InitMount ==
    /\ nodes = KMainRootRamdisk.ns
    /\ next_inode = KMainRootRamdisk.nx
    /\ ramdisks = {KMainRamdiskRoot, KMainRootRamdiskRoot}
    /\ mountfs = <<MountFS(KMainRootRamdiskRoot, NoHandle)>>
    /\ cur = NoHandle
    /\ rs = NoResolve
    /\ NoCallers
    /\ devices = NoDevices
    /\ last = MCall("init", NoHandle, NoName, NoNode, "Ok")

\* MountFS::root
Root ==
    /\ \E m \in DOMAIN mountfs :
          /\ cur' = MountFSRoot(mountfs, m)
          /\ last' = MCall("root", NoHandle, NoName, m, "Ok")
    /\ UNCHANGED <<nodes, next_inode, ramdisks, mountfs, resolveVars, concVars, devVars>>

MountedFind ==
    /\ cur # NoHandle
    /\ \E name \in KMainNames \cup {DotName, DotDotName} :
          LET r == MnFind(nodes, mountfs, cur, name)
          IN /\ cur' = IF r.res = "Ok" THEN r.val ELSE cur
             /\ last' = MCall("find", cur, name, NoNode, r.res)
    /\ UNCHANGED <<nodes, next_inode, ramdisks, mountfs, resolveVars, concVars, devVars>>

\* the handle to the new MountFS is dropped
Mount ==
    /\ cur # NoHandle
    /\ Len(mountfs) <= MaxMounts
    /\ \E fs \in ramdisks :
          LET r == MnMount(nodes, mountfs, cur, fs)
          IN /\ mountfs' = r.ms
             /\ last' = MCall("mount", cur, NoName, fs, r.res)
    /\ UNCHANGED <<nodes, next_inode, ramdisks, cur, resolveVars, concVars, devVars>>

MountedUnlink ==
    /\ cur # NoHandle
    /\ \E name \in {Tmp, TextTxt} :
          LET r == MnUnlink(nodes, next_inode, mountfs, cur, name)
          IN /\ nodes' = r.ns
             /\ last' = MCall("unlink", cur, name, NoNode, r.res)
    /\ UNCHANGED <<next_inode, ramdisks, mountfs, cur, resolveVars, concVars, devVars>>

\* the handle to the new inode is dropped
MountedCreate ==
    /\ cur # NoHandle
    /\ next_inode <= KMainNodes + MaxCreated
    /\ \E type \in {"File", "Directory"} :
          LET r == MnCreate(nodes, next_inode, cur, TextTxt, type)
          IN /\ nodes' = r.ns
             /\ next_inode' = r.nx
             /\ last' = MCall("create", cur, TextTxt, NoNode, r.res)
    /\ UNCHANGED <<ramdisks, mountfs, cur, resolveVars, concVars, devVars>>

NextMount ==
    Root \/ MountedFind \/ Mount \/ MountedUnlink \/ MountedCreate

SpecMount == InitMount /\ [][NextMount]_vars

----------------------------------------------------------------------------
(* Claims about the mount overlay *)

Mounted(h) == mountfs[h.fs].mountpoints[h.inode]

\* C1: unlink(name) on a MountedNode directory whose entry name is a
\* directory with a filesystem mounted on it returns Busy and changes neither
\* the entry nor the mount-point map.
C1_UnlinkMountPointBusy ==
    [][(/\ last'.op = "unlink"
        /\ nodes[cur.inode].type_ = "Directory"
        /\ HasChild(nodes, cur.inode, last'.name)
        /\ IsMountPoint(mountfs,
               MountedNode(nodes[cur.inode].children[last'.name], cur.fs)))
       => /\ last'.res = "Busy"
          /\ nodes' = nodes
          /\ mountfs' = mountfs]_vars

\* the directory find(name) on h searches: the root of the filesystem mounted
\* on h when there is one
Searched(h) ==
    IF IsMountPoint(mountfs, h) THEN mountfs[Mounted(h)].inner ELSE h.inode

\* C3: find(n) on a MountedNode directory d, n neither "." nor "..", returns
\* the root of the filesystem mounted on the located inode when its id is a
\* key of the mount-point map of d's MountFS, and the located inode with d's
\* MountFS otherwise; find(".") on a mounted root returns it and lookups on
\* it find exactly the entries of the mounted filesystem's root (while
\* nothing is mounted on that root in turn).
C3_FindOverlays ==
    (/\ last.op = "find"
     /\ last.res = "Ok"
     /\ last.name \notin {DotName, DotDotName})
    => /\ HasChild(nodes, Searched(last.self), last.name)
       /\ LET d == last.self
              located == MountedNode(nodes[Searched(d)].children[last.name],
                                     d.fs)
          IN IF IsMountPoint(mountfs, located)
             THEN /\ cur = MountedNode(mountfs[Mounted(located)].inner,
                                       Mounted(located))
                  /\ MnFind(nodes, mountfs, cur, DotName) = MResult("Ok", cur)
                  /\ ~IsMountPoint(mountfs, cur) =>
                        \A n \in KMainNames :
                           MnFind(nodes, mountfs, cur, n).res = "Ok"
                              <=> HasChild(nodes, mountfs[cur.fs].inner, n)
             ELSE cur = located

\* find has stepped from the outer filesystem onto the root of a mounted one
C3_Witness ==
    /\ last.op = "find"
    /\ last.res = "Ok"
    /\ last.name = Tmp
    /\ cur.fs # last.self.fs
    /\ cur = MountFSRoot(mountfs, cur.fs)
    /\ nodes[cur.inode].filesystem # nodes[last.self.inode].filesystem

\* C4: find("..") on the root of a MountFS mounted on directory p returns
\* what p.find("..") returns in the outer filesystem, which has the id of
\* p's parent directory when p is no root; on the root of the top-level
\* MountFS it returns that root.
C4_DotDotClimbsOut ==
    (/\ last.op = "find"
     /\ last.name = DotDotName
     /\ last.self = MountFSRoot(mountfs, last.self.fs))
    => LET p == mountfs[last.self.fs].self_mountpoint
       IN IF p = NoHandle
          THEN last.res = "Ok" /\ cur = last.self
          ELSE /\ MResult(last.res, cur) = MnFind(nodes, mountfs, p, DotDotName)
               /\ nodes[p.inode].filesystem # p.inode
                     => cur = MountedNode(nodes[p.inode].parent_ref, p.fs)

\* ".." was called on the root of a MountFS that is mounted inside a mounted
\* MountFS, and has climbed out of it
C4_Witness ==
    /\ last.op = "find"
    /\ last.name = DotDotName
    /\ last.self = MountFSRoot(mountfs, last.self.fs)
    /\ mountfs[last.self.fs].self_mountpoint # NoHandle
    /\ mountfs[mountfs[last.self.fs].self_mountpoint.fs].self_mountpoint # NoHandle
    /\ cur.fs # last.self.fs

----------------------------------------------------------------------------
(* vfs.rs: resolve_follow, on any INode.  A handle to a ramdisk inode that *)
(* is not wrapped in a MountedNode has no MountFS.                         *)

BareNode(i) == [inode |-> i, fs |-> NoNode]

INodeFind(ns, ms, h, name) ==
    IF h.fs # NoNode THEN MnFind(ns, ms, h, name)
    ELSE LET found == RdFind(ns, 0, h.inode, name)
         IN IF found.res # "Ok" THEN MResult(found.res, NoHandle)
            ELSE MResult("Ok", BareNode(found.val))

\* metadata()?.type_
INodeType(ns, h) == ns[h.inode].type_

\* FilesystemRoot that stays on the node it is asked of
FilesystemRootSelf(ns, ms, h) == h

\* filesystem().root()
FilesystemRoot(ns, ms, h) ==
    IF h.fs # NoNode THEN MountFSRoot(ms, h.fs)
    ELSE BareNode(ns[h.inode].filesystem)

\* the size of the buffer a link's content is read into
LinkBuffer == 256

\* str::from_utf8: the paths of the model are ASCII
IsUtf8(bytes) == \A k \in DOMAIN bytes : bytes[k] < 128

\* String::find('/'): the place of the first slash, 0 when there is none
FirstSlash(path) ==
    IF \E k \in DOMAIN path : path[k] = Slash
    THEN CHOOSE k \in DOMAIN path :
            /\ path[k] = Slash
            /\ \A j \in 1..(k - 1) : path[j] # Slash
    ELSE 0

Returns(st, res, current) ==
    [st EXCEPT !.pc = "done", !.res = res, !.current = current]

\* line 101: current = self.find(".")?
ResolveStart(ns, ms, self, path, follow_times) ==
    LET dot == INodeFind(ns, ms, self, DotName)
        st == [pc |-> "loop", self |-> self, path |-> path,
               follow |-> follow_times, current |-> dot.val,
               path_rest |-> path, follow_times |-> follow_times,
               res |-> "Ok"]
    IN IF dot.res # "Ok" THEN Returns(st, dot.res, NoHandle) ELSE st

\* FollowsLink with no regard to the budget
FollowsLinkAlways(ns, st, inode) == INodeType(ns, inode) = "SymbolicLink"

\* FollowsLink that leaves every link alone
FollowsLinkNever(ns, st, inode) == FALSE

\* lines 128-130: a link named by the component is expanded, budget allowing
FollowsLink(ns, st, inode) ==
    INodeType(ns, inode) = "SymbolicLink" /\ st.follow_times > 0

\* lines 137-142: the link's content with the rest of the path after it
Splice(path, path_rest) ==
    IF path # <<>> /\ path[Len(path)] = Slash
    THEN path \o <<Slash>> \o path_rest
    ELSE path \o path_rest

\* lines 104-150: the test of the loop and one turn of it
ResolveBody(ns, ms, st) ==
    IF st.path_rest = <<>> THEN Returns(st, "Ok", st.current)
    ELSE IF INodeType(ns, st.current) # "Directory"
         THEN Returns(st, "NotDirectory", NoHandle)
    ELSE IF Head(st.path_rest) = Slash
         THEN [st EXCEPT !.current = FilesystemRoot(ns, ms, st.self),
                         !.path_rest = Tail(st.path_rest)]
    ELSE LET pos == FirstSlash(st.path_rest)
             next == IF pos = 0 THEN st.path_rest
                     ELSE SubSeq(st.path_rest, 1, pos - 1)
             rest == IF pos = 0 THEN <<>>
                     ELSE SubSeq(st.path_rest, pos + 1, Len(st.path_rest))
             found == INodeFind(ns, ms, st.current, next)
         IN IF found.res # "Ok" THEN Returns(st, found.res, NoHandle)
            ELSE IF FollowsLink(ns, st, found.val)
                 THEN LET read == RdReadAt(ns, 0, found.val.inode, 0, LinkBuffer)
                      IN IF read.res # "Ok" THEN Returns(st, read.res, NoHandle)
                         ELSE IF ~IsUtf8(read.data)
                              THEN Returns(st, "NotDirectory", NoHandle)
                         ELSE [st EXCEPT !.follow_times = @ - 1,
                                         !.path_rest = Splice(read.data, rest)]
                 ELSE [st EXCEPT !.current = found.val, !.path_rest = rest]

RECURSIVE ResolveLoop(_, _, _)
ResolveLoop(ns, ms, st) ==
    IF st.pc = "done" THEN st ELSE ResolveLoop(ns, ms, ResolveBody(ns, ms, st))

\* what self.resolve_follow(path, follow_times) returns
resolve_follow(ns, ms, self, path, follow_times) ==
    LET st == ResolveLoop(ns, ms, ResolveStart(ns, ms, self, path, follow_times))
    IN MResult(st.res, st.current)

----------------------------------------------------------------------------
(* One resolve_follow call, a turn of its loop at a time, on a tree with   *)
(* symbolic links or on the tree kmain has mounted (lib.rs:110).           *)

\* the components of a path, and the follow_times, a caller passes
MaxComps == 2
MaxFollow == 2

NameC == <<99>>
NameX == <<120>>
NameL == <<108>>

RECURSIVE Join(_)
Join(comps) ==
    IF comps = <<>> THEN <<>>
    ELSE IF Len(comps) = 1 THEN comps[1]
    ELSE comps[1] \o <<Slash>> \o Join(Tail(comps))

Paths(names, n) == {Join(comps) : comps \in UNION {[1..k -> names] : k \in 0..n}}

\* "b", "b/", "b/c", "a", "/b", "b/l"
TargetsA ==
    {NameB, NameB \o <<Slash>>, Join(<<NameB, NameC>>), NameA,
     <<Slash>> \o NameB, Join(<<NameB, NameL>>)}

\* "/a", "c", "l"
TargetsL == {<<Slash>> \o NameA, NameC, NameL}

\* a ramdisk (1) with the link a (2) and the directory b (3), which holds
\* the files c (4) and x (5) and the link l (6)
LinkRamdisk(ta, tl) ==
    LET root == RamdiskNew(<<>>, 1)
        a == AndWrite(AndCreate(root, root.val, NameA, "SymbolicLink"), 2, ta)
        b == AndCreate(a, root.val, NameB, "Directory")
        c == AndCreate(b, b.val, NameC, "File")
        x == AndCreate(c, b.val, NameX, "File")
    IN AndWrite(AndCreate(x, b.val, NameL, "SymbolicLink"), 6, tl)

LinkNames == {NameA, NameB, NameC, NameX, NameL, DotDotName, <<>>}

KMainPathNames == {Tmp, Folder, HelloTxt, DotDotName, <<>>}

\* lib.rs:109-110: the MountFS over root_ramdisk, ramdisk mounted on tmp
KMainMounted ==
    LET root == <<MountFS(KMainRootRamdiskRoot, NoHandle)>>
        tmp == MnFind(KMainRootRamdisk.ns, root, MountFSRoot(root, 1), Tmp)
    IN MnMount(KMainRootRamdisk.ns, root, tmp.val, KMainRamdiskRoot)

NoCall == MCall("init", NoHandle, NoName, NoNode, "Ok")

InitResolve ==
    /\ cur = NoHandle
    /\ NoCallers
    /\ devices = NoDevices
    /\ last = NoCall
    /\ \/ \E ta \in TargetsA, tl \in TargetsL, self \in {1, 3, 4},
            path \in Paths(LinkNames, MaxComps), follow_times \in 0..MaxFollow :
             /\ nodes = LinkRamdisk(ta, tl).ns
             /\ next_inode = LinkRamdisk(ta, tl).nx
             /\ ramdisks = {1}
             /\ mountfs = <<>>
             /\ rs = ResolveStart(nodes, mountfs, BareNode(self), path,
                                  follow_times)
       \/ \E m \in {1, 2}, path \in Paths(KMainPathNames, MaxComps + 1),
            follow_times \in 0..MaxFollow :
             /\ nodes = KMainRootRamdisk.ns
             /\ next_inode = KMainRootRamdisk.nx
             /\ ramdisks = {KMainRamdiskRoot, KMainRootRamdiskRoot}
             /\ mountfs = KMainMounted.ms
             /\ rs = ResolveStart(nodes, mountfs, MountFSRoot(mountfs, m),
                                  path, follow_times)

Turn ==
    /\ rs.pc = "loop"
    /\ rs' = ResolveBody(nodes, mountfs, rs)
    /\ UNCHANGED <<nodes, next_inode, ramdisks, mountfs, cur, last, concVars, devVars>>

\* line 150: no path is left
ResolveReturn == rs.path_rest = <<>> /\ Turn

\* lines 105-107 and 128: the call fails
ResolveFail == rs.path_rest # <<>> /\ Turn /\ rs'.pc = "done"

\* lines 109-114: a leading slash
ResolveRoot ==
    /\ rs.path_rest # <<>>
    /\ Turn
    /\ rs'.pc = "loop" /\ rs'.current = FilesystemRoot(nodes, mountfs, rs.self)
    /\ rs'.follow_times = rs.follow_times /\ Head(rs.path_rest) = Slash

\* lines 130-144: a link is expanded
ResolveFollow ==
    /\ rs.path_rest # <<>>
    /\ Turn
    /\ rs'.pc = "loop" /\ rs'.follow_times # rs.follow_times

\* lines 145-147: the component is stepped into
ResolveStep ==
    /\ rs.path_rest # <<>>
    /\ Turn
    /\ rs'.pc = "loop" /\ rs'.follow_times = rs.follow_times
    /\ Head(rs.path_rest) # Slash

NextResolve ==
    ResolveReturn \/ ResolveFail \/ ResolveRoot \/ ResolveFollow \/ ResolveStep

\* the calling thread goes on running: a turn that can be taken is taken
SpecResolve == InitResolve /\ [][NextResolve]_vars /\ WF_vars(NextResolve)

----------------------------------------------------------------------------
(* Claims about resolve_follow *)

Resolved == MResult(rs.res, rs.current)

\* the call was made on a directory of the tree with links
OnLinkRamdisk ==
    /\ rs.pc = "done"
    /\ rs.self.fs = NoNode
    /\ INodeType(nodes, rs.self) = "Directory"

\* C5: with a positive follow budget, a path whose first component names a
\* symbolic link with content t and goes on after it resolves as t + "/" +
\* remainder does from the same directory (as t + remainder when t ends in
\* a slash) with the budget that is left.
C5_LinkThenSlash ==
    OnLinkRamdisk =>
       LET pos == FirstSlash(rs.path)
           name == SubSeq(rs.path, 1, pos - 1)
           remainder == SubSeq(rs.path, pos + 1, Len(rs.path))
           link == nodes[rs.self.inode].children[name]
           t == nodes[link].content
       IN (/\ rs.follow > 0
           /\ pos > 1
           /\ remainder # <<>>
           /\ HasChild(nodes, rs.self.inode, name)
           /\ nodes[link].type_ = "SymbolicLink"
           /\ t # <<>>)
          => Resolved =
                resolve_follow(nodes, mountfs, rs.self,
                    IF t[Len(t)] = Slash THEN t \o remainder
                    ELSE t \o <<Slash>> \o remainder,
                    rs.follow - 1)

\* the root's entry a, a symbolic link
LinkA == nodes[1].children[NameA]

\* C9: resolving a path whose only component names a symbolic link of the
\* root, with content t that is not empty and ends in no slash ("b/c"), from
\* the root: with at least one follow left it returns what resolving "/" + t
\* returns with the budget that is left, with none it returns the link
\* itself.
C9_FinalLink ==
    (/\ OnLinkRamdisk
     /\ rs.self = BareNode(1)
     /\ rs.path \in {NameA, <<Slash>> \o NameA}
     /\ LET t == nodes[LinkA].content IN t # <<>> /\ t[Len(t)] # Slash)
    => IF rs.follow >= 1
       THEN Resolved =
               resolve_follow(nodes, mountfs, rs.self,
                   <<Slash>> \o nodes[LinkA].content, rs.follow - 1)
       ELSE Resolved = MResult("Ok", BareNode(LinkA)) /\ rs.follow_times = 0

\* "a", a link to "b/c", has been resolved from the root to the file c
C9_Witness ==
    /\ OnLinkRamdisk
    /\ rs.self = BareNode(1)
    /\ rs.path = NameA
    /\ nodes[LinkA].content = Join(<<NameB, NameC>>)
    /\ rs.follow >= 1
    /\ Resolved = MResult("Ok", BareNode(nodes[3].children[NameC]))

\* C6: every resolve_follow call returns, and it expands no more links than
\* its follow_times: what is left of the budget is never below 0.
C6_Terminates ==
    /\ <>(rs.pc = "done")
    /\ [](rs.follow_times \in 0..rs.follow)

\* a call on a link to itself has returned with its budget used up
C6_Witness ==
    /\ OnLinkRamdisk
    /\ nodes[LinkA].content = NameA
    /\ rs.path = NameA
    /\ rs.follow = MaxFollow
    /\ rs.follow_times = 0
    /\ Resolved = MResult("Ok", BareNode(LinkA))

\* no leading slash and no empty component but a last one: resolution is
\* never sent back to a root
NoRootReset(path) ==
    \A k \in DOMAIN path :
       path[k] = Slash => k > 1 /\ path[k - 1] # Slash

TmpFolderHello == Join(<<Tmp, Folder, HelloTxt>>)

----------------------------------------------------------------------------
(* ramdisk.rs under concurrent callers.  Every node is a spin::RwLock:     *)
(* write() spins while any guard of the node is alive, read() while a      *)
(* write guard is.  A read guard never outlives the statement that takes   *)
(* it, so the guards alive between two steps are write guards.             *)

\* calls the threads make in all
MaxCalls == 3

\* create is called while next_inode <= ConcMaxNodes
ConcMaxNodes == 4

\* the tree the threads share: root (1) with a, a file (2), and b, a
\* directory (3)
ConcRamdisk ==
    AndCreate(AndCreate(RamdiskNew(<<>>, 1), 1, NameA, "File"),
              1, NameB, "Directory")

\* not inside move_
NoMove == [step |-> "none"]

\* the locals of move_: the call it is in, the node its find returned and
\* the error of its unlink
MoveLocals(step, self, old_name, target, new_name, file, err) ==
    [step |-> step, self |-> self, old_name |-> old_name, target |-> target,
     new_name |-> new_name, file |-> file, err |-> err]

\* a thread in link or unlink on self, called by move_ when mv says so
InCall(pc, self, name, other, mv) ==
    [pc |-> pc, self |-> self, name |-> name, other |-> other, mv |-> mv]

\* no guard of the node is alive
Free(n) == \A l \in locks : l[1] # n

\* move_ is about to return res
MoveReturns(mv, res) == [pc |-> "move_return", mv |-> mv, res |-> res]

\* Continue that returns the error of the unlink at once and leaves the
\* new entry where it is
ContinueNoRollback(th, res) ==
    IF th.mv.step = "none" THEN Idle
    ELSE IF th.mv.step = "link" /\ res = "Ok"
    THEN InCall("unlink_self", th.mv.self, th.mv.old_name, NoNode,
                [th.mv EXCEPT !.step = "unlink"])
    ELSE MoveReturns(th.mv, res)

\* the call of thread record th has returned res: lines 239-249 when move_
\* made the call, else the thread is out of its call
Continue(th, res) ==
    IF th.mv.step = "none" THEN Idle
    ELSE IF th.mv.step = "link"
    THEN IF res = "Ok"
         THEN InCall("unlink_self", th.mv.self, th.mv.old_name, NoNode,
                     [th.mv EXCEPT !.step = "unlink"])
         ELSE MoveReturns(th.mv, res)
    ELSE IF th.mv.step = "unlink"
    THEN IF res # "Ok"
         THEN InCall("unlink_self", th.mv.target, th.mv.new_name, NoNode,
                     [th.mv EXCEPT !.step = "undo", !.err = res])
         ELSE MoveReturns(th.mv, "Ok")
    ELSE IF res # "Ok" THEN MoveReturns(th.mv, res)
    ELSE MoveReturns(th.mv, th.mv.err)

InitConc ==
    /\ nodes = ConcRamdisk.ns
    /\ next_inode = ConcRamdisk.nx
    /\ ramdisks = {1}
    /\ mountfs = <<>>
    /\ cur = NoHandle
    /\ rs = NoResolve
    /\ last = NoCall
    /\ NoCallers
    /\ devices = NoDevices

Calling(t) ==
    /\ threads[t] = Idle
    /\ calls < MaxCalls
    /\ calls' = calls + 1
    /\ UNCHANGED <<ramdisks, mountVars, resolveVars, last, devVars,
                 interrupts>>

Stepping(t, pc) ==
    /\ threads[t].pc = pc
    /\ UNCHANGED <<next_inode, calls, ramdisks, mountVars, resolveVars, last,
                 devVars, interrupts>>

\* create: one write guard of self, held to the end
ConcCreate(t) ==
    /\ Calling(t)
    /\ next_inode <= ConcMaxNodes
    /\ \E i \in Ids, name \in Names, type \in FileTypes :
          /\ Free(i)
          /\ nodes' = RdCreate(nodes, next_inode, i, name, type).ns
          /\ next_inode' = RdCreate(nodes, next_inode, i, name, type).nx
    /\ UNCHANGED <<threads, locks>>

\* find: one read guard of self
ConcFind(t) ==
    /\ Calling(t)
    /\ \E i \in Ids : Free(i)
    /\ UNCHANGED <<nodes, next_inode, threads, locks>>

\* read_at: one read guard of self
ConcReadAt(t) ==
    /\ Calling(t)
    /\ \E i \in Ids : Free(i)
    /\ UNCHANGED <<nodes, next_inode, threads, locks>>

\* write_at: one write guard of self
ConcWriteAt(t) ==
    /\ Calling(t)
    /\ \E i \in Ids :
          /\ Free(i)
          /\ nodes' = RdWriteAt(nodes, next_inode, i, 0, NameA).ns
    /\ UNCHANGED <<next_inode, threads, locks>>

ConcLink(t) ==
    /\ Calling(t)
    /\ \E i \in Ids, name \in Names, other \in Ids :
          threads' = [threads EXCEPT
                         ![t] = InCall("link_self", i, name, other, NoMove)]
    /\ UNCHANGED <<nodes, next_inode, locks>>

ConcUnlink(t) ==
    /\ Calling(t)
    /\ \E i \in Ids, name \in Names \cup {DotName} :
          threads' = [threads EXCEPT
                         ![t] = InCall("unlink_self", i, name, NoNode, NoMove)]
    /\ UNCHANGED <<nodes, next_inode, locks>>

\* ConcMove that takes the old entry out before it puts the new one in
ConcMoveUnlinksFirst(t) ==
    /\ Calling(t)
    /\ \E i \in Ids, old_name \in Names, target \in Ids, new_name \in Names :
          LET file == RdFind(nodes, next_inode, i, old_name)
          IN /\ Free(i)
             /\ threads' = [threads EXCEPT ![t] =
                    IF file.res # "Ok"
                    THEN MoveReturns(MoveLocals("find", i, old_name, target,
                                                new_name, NoNode, "Ok"),
                                     file.res)
                    ELSE InCall("unlink_self", i, old_name, NoNode,
                                MoveLocals("unlink", i, old_name, target,
                                           new_name, file.val, "Ok"))]
    /\ UNCHANGED <<nodes, next_inode, locks>>

\* lines 238-239: find under a read guard of self, then the call of link
ConcMove(t) ==
    /\ Calling(t)
    /\ \E i \in Ids, old_name \in Names, target \in Ids, new_name \in Names :
          LET file == RdFind(nodes, next_inode, i, old_name)
          IN /\ Free(i)
             /\ threads' = [threads EXCEPT ![t] =
                    IF file.res # "Ok"
                    THEN MoveReturns(MoveLocals("find", i, old_name, target,
                                                new_name, NoNode, "Ok"),
                                     file.res)
                    ELSE InCall("link_self", target, new_name, file.val,
                                MoveLocals("link", i, old_name, target,
                                           new_name, file.val, "Ok"))]
    /\ UNCHANGED <<nodes, next_inode, locks>>

\* lines 239, 244, 246 and 248: move_ returns
MoveReturn(t) ==
    /\ Stepping(t, "move_return")
    /\ threads' = [threads EXCEPT ![t] = Idle]
    /\ UNCHANGED <<nodes, locks>>

\* line 191: self.write()
LinkSelf(t) ==
    /\ Stepping(t, "link_self")
    /\ Free(threads[t].self)
    /\ locks' = locks \cup {<<threads[t].self, t>>}
    /\ threads' = [threads EXCEPT ![t].pc = "link_other"]
    /\ UNCHANGED nodes

\* lines 192-210: other.write(), the checks and the insertion
LinkOther(t) ==
    LET th == threads[t]
        r == RdLink(nodes, next_inode, th.self, th.name, th.other)
    IN /\ Stepping(t, "link_other")
       /\ Free(th.other)
       /\ nodes' = r.ns
       /\ locks' = locks \ {<<th.self, t>>}
       /\ threads' = [threads EXCEPT ![t] = Continue(th, r.res)]

\* lines 214-225: self.write() and the checks made under it
UnlinkSelf(t) ==
    LET th == threads[t]
        res == IF nodes[th.self].type_ # "Directory" THEN "NotDirectory"
               ELSE IF th.name \in {DotName, DotDotName}
                    THEN "DirectoryNotEmpty"
               ELSE IF ~HasChild(nodes, th.self, th.name) THEN "EntryNotFound"
               ELSE "Ok"
    IN /\ Stepping(t, "unlink_self")
       /\ Free(th.self)
       /\ IF res # "Ok"
          THEN /\ threads' = [threads EXCEPT ![t] = Continue(th, res)]
               /\ UNCHANGED locks
          ELSE /\ threads' = [threads EXCEPT
                      ![t].pc = "unlink_read",
                      ![t].other = nodes[th.self].children[th.name]]
               /\ locks' = locks \cup {<<th.self, t>>}
       /\ UNCHANGED nodes

\* lines 227-229: other.read(), dropped after the test
UnlinkRead(t) ==
    LET th == threads[t]
    IN /\ Stepping(t, "unlink_read")
       /\ Free(th.other)
       /\ IF DOMAIN nodes[th.other].children # {}
          THEN /\ threads' = [threads EXCEPT
                      ![t] = Continue(th, "DirectoryNotEmpty")]
               /\ locks' = locks \ {<<th.self, t>>}
          ELSE /\ threads' = [threads EXCEPT ![t].pc = "unlink_write"]
               /\ UNCHANGED locks
       /\ UNCHANGED nodes

\* lines 231-234: other.write() for the count, then the removal
UnlinkWrite(t) ==
    LET th == threads[t]
    IN /\ Stepping(t, "unlink_write")
       /\ Free(th.other)
       /\ nodes' = [nodes EXCEPT ![th.other].links = @ - 1,
                                 ![th.self].children = Remove(@, th.name)]
       /\ locks' = locks \ {<<th.self, t>>}
       /\ threads' = [threads EXCEPT ![t] = Continue(th, "Ok")]

NextConc ==
    \E t \in Threads :
       \/ ConcCreate(t) \/ ConcFind(t) \/ ConcReadAt(t) \/ ConcWriteAt(t)
       \/ ConcLink(t) \/ ConcUnlink(t) \/ ConcMove(t)
       \/ LinkSelf(t) \/ LinkOther(t)
       \/ UnlinkSelf(t) \/ UnlinkRead(t) \/ UnlinkWrite(t)
       \/ MoveReturn(t)

SpecConc == InitConc /\ [][NextConc]_vars

----------------------------------------------------------------------------
(* Claims about concurrent callers *)

\* the node whose lock thread t is spinning on or about to take
Wants(t) ==
    IF threads[t].pc \in {"link_self", "unlink_self"} THEN threads[t].self
    ELSE IF threads[t].pc \in {"link_other", "unlink_read", "unlink_write"}
         THEN threads[t].other
    ELSE NoNode

\* thread h holds a guard that keeps t from the lock it wants
Blocks(h, t) == Wants(t) # NoNode /\ <<Wants(t), h>> \in locks

\* each thread of S waits for a guard held by a thread of S: none of them
\* ever takes another step
WaitForever(S) == S # {} /\ \A t \in S : \E h \in S : Blocks(h, t)

\* C7: in no reachable state does a call wait forever for a node lock: no
\* set of threads is such that each waits for a lock held inside the set.
C7_NoCallWaitsForever == \A S \in SUBSET Threads : ~WaitForever(S)

----------------------------------------------------------------------------
(* Claims about the calls on ramdisk inodes *)

\* the step is the call op, and the call returns
Calls(op) == last'.op = op /\ last'.res # "Deadlock"

\* every inode but those of the set is as it was
OnlyChanged(ids) ==
    /\ DOMAIN nodes' = DOMAIN nodes
    /\ \A i \in DOMAIN nodes \ ids : nodes'[i] = nodes[i]

\* C11: unlink(name) fails and changes nothing when self is no directory
\* (NotDirectory), when name is "." or "..", when name is absent
\* (EntryNotFound) and when the target has a child (DirectoryNotEmpty);
\* otherwise it returns Ok, removes that name and no other from self and
\* takes exactly 1 from the target's link count.
C11_UnlinkContract ==
    [][Calls("unlink") =>
        LET self == last'.self
            name == last'.name
            dir == nodes[self].type_ = "Directory"
            dots == name \in {DotName, DotDotName}
            present == dir /\ ~dots /\ HasChild(nodes, self, name)
            target == nodes[self].children[name]
            empty == DOMAIN nodes[target].children = {}
        IN /\ ~dir => last'.res = "NotDirectory"
           /\ dots => last'.res # "Ok"
           /\ (dir /\ ~dots /\ ~present) => last'.res = "EntryNotFound"
           /\ (present /\ ~empty) => last'.res = "DirectoryNotEmpty"
           /\ last'.res # "Ok" => nodes' = nodes /\ next_inode' = next_inode
           /\ (present /\ empty) =>
                 /\ last'.res = "Ok"
                 /\ next_inode' = next_inode
                 /\ OnlyChanged({self, target})
                 /\ DOMAIN nodes'[self].children
                       = DOMAIN nodes[self].children \ {name}
                 /\ \A n \in DOMAIN nodes'[self].children :
                       nodes'[self].children[n] = nodes[self].children[n]
                 /\ nodes'[target].links = nodes[target].links - 1
                 /\ [nodes'[self] EXCEPT !.children = <<>>]
                       = [nodes[self] EXCEPT !.children = <<>>]
                 /\ [nodes'[target] EXCEPT !.links = 0]
                       = [nodes[target] EXCEPT !.links = 0]]_vars

\* an unlink has removed one of the two names of a file: one link is left
C11_Witness ==
    /\ last.op = "unlink"
    /\ last.res = "Ok"
    /\ ~HasChild(nodes, last.self, last.name)
    /\ \E n \in DOMAIN nodes[last.self].children :
          /\ n # last.name
          /\ nodes[nodes[last.self].children[n]].links = 1
          /\ nodes[nodes[last.self].children[n]].type_ = "File"
    /\ Len(nodes) = 2

\* the step is a call of op that returns, on a directory that has the name
OnExistingName(op) ==
    /\ Calls(op)
    /\ nodes[last'.self].type_ = "Directory"
    /\ HasChild(nodes, last'.self, last'.name)

\* create on a directory returns Ok and a new node that find(name) returns
CreateReplaces ==
    /\ last'.res = "Ok"
    /\ last'.val \notin DOMAIN nodes
    /\ RdFind(nodes', next_inode', last'.self, last'.name).res = "Ok"
    /\ RdFind(nodes', next_inode', last'.self, last'.name).val = last'.val

Found(ns, dir, name) == RdFind(ns, 0, dir, name)

\* C13: right after unlink(name) returned Ok, find(name) on the directory
\* fails with EntryNotFound and every other entry is found as before; a name
\* a directory lacks comes to it by a create or a link of that name on it
\* (move_ links) and by no other call, and until then find fails with
\* EntryNotFound.
C13_UnlinkedNotFound ==
    [][/\ (Calls("unlink") /\ last'.res = "Ok") =>
             /\ Found(nodes', last'.self, last'.name).res = "EntryNotFound"
             /\ \A n \in DOMAIN nodes[last'.self].children \ {last'.name} :
                   /\ Found(nodes', last'.self, n).res = "Ok"
                   /\ Found(nodes', last'.self, n).val
                         = nodes[last'.self].children[n]
       /\ \A dir \in DOMAIN nodes, n \in Names :
             (/\ nodes[dir].type_ = "Directory"
              /\ ~HasChild(nodes, dir, n)
              /\ HasChild(nodes', dir, n))
             => \/ last'.op \in {"create", "link"}
                   /\ last'.self = dir /\ last'.name = n
                \/ last'.op = "move_"
                   /\ last'.other = dir /\ last'.name2 = n
       /\ (/\ Calls("find")
           /\ nodes[last'.self].type_ = "Directory"
           /\ last'.name \in Names
           /\ ~HasChild(nodes, last'.self, last'.name))
          => last'.res = "EntryNotFound"]_vars

\* a name that was unlinked is looked up and not found, next to an entry
\* that is still there
C13_Witness ==
    /\ last.op = "find"
    /\ last.res = "EntryNotFound"
    /\ DOMAIN nodes[last.self].children # {}
    /\ \E i \in DOMAIN nodes :
          /\ nodes[i].links = 0
          /\ nodes[i].parent_ref = last.self

----------------------------------------------------------------------------
(* The life of a Ramdisk.  Ramdisk::new hands the caller the one            *)
(* Arc<Ramdisk>; the inodes hold a Weak<Ramdisk>, which keeps nothing       *)
(* alive.  The caller keeps its handles to the inodes.                      *)

\* ramdisk.rs:286-288: filesystem.upgrade().unwrap()
RdFilesystem(ns, nx, alive, i) ==
    IF ns[i].filesystem \in alive THEN Result("Ok", ns[i].filesystem, ns, nx)
    ELSE Result("Panic", NoNode, ns, nx)

\* the caller drops its Arc<Ramdisk>: the last strong reference
DropRamdisk ==
    /\ Returned
    /\ \E r \in ramdisks :
          /\ ramdisks' = ramdisks \ {r}
          /\ last' = Call("drop", r, NoName, NoNode, NoName,
                          Result("Ok", NoNode, nodes, next_inode))
    /\ UNCHANGED <<nodes, next_inode, mountVars, resolveVars, concVars, devVars>>

Filesystem ==
    /\ Returned
    /\ \E i \in Ids :
          Apply("filesystem", i, NoName, NoNode, NoName,
                RdFilesystem(nodes, next_inode, ramdisks, i))
    /\ UNCHANGED ramdisks

NextLife == New \/ Create \/ DropRamdisk \/ Filesystem

SpecLife == Init /\ [][NextLife]_vars

\* C14: filesystem() on a ramdisk inode the caller holds returns the owning
\* Ramdisk, also after the caller has dropped its handle to the Ramdisk and
\* kept the inode handle.
C14_FilesystemReturnsOwner ==
    last.op = "filesystem" =>
       last.res = "Ok" /\ last.val = nodes[last.self].filesystem

----------------------------------------------------------------------------
(* dev/mod.rs and dev/zeronull.rs: one DevFS, next to one Ramdisk.  A      *)
(* handle is an Arc<dyn INode>: a ramdisk inode, the root inode of the     *)
(* DevFS or a device, bare or wrapped in a MountedNode.                    *)

Handle(kind, obj, mounted) == [kind |-> kind, obj |-> obj, mounted |-> mounted]

RamdiskHandle(i) == Handle("Ramdisk", i, FALSE)

\* DevFS::root
DevFSRootINode == Handle("DevFSRoot", 0, FALSE)

\* ZeroNullDevice::new(fs, null): obj is 1 for null and 0 for zero
ZeroNullDevice(null) == Handle("ZeroNull", IF null THEN 1 ELSE 0, FALSE)

\* the MountedNode over the inode of h
Wrapped(h) == [h EXCEPT !.mounted = TRUE]

\* MountedNode.inode
Inner(h) == [h EXCEPT !.mounted = FALSE]

NoObject == Handle("None", 0, FALSE)

DevResult(res, val, ns, devs) ==
    [res |-> res, val |-> val, ns |-> ns, devs |-> devs]

\* DevFSAdd that replaces the device of an occupied name
DevFSAddReplaces(ns, devs, name, device) ==
    DevResult("Ok", NoObject, ns, Insert(devs, name, device))

\* dev/mod.rs:48-56
DevFSAdd(ns, devs, name, device) ==
    IF name \in DOMAIN devs THEN DevResult("EntryExists", NoObject, ns, devs)
    ELSE DevResult("Ok", NoObject, ns, Insert(devs, name, device))

\* dev/mod.rs:59-63
DevFSRemove(ns, devs, name) ==
    IF name \notin DOMAIN devs
    THEN DevResult("EntryNotFound", NoObject, ns, devs)
    ELSE DevResult("Ok", NoObject, ns, Remove(devs, name))

\* dev/mod.rs:139-144
DevFSRootFind(ns, devs, name) ==
    IF name \in {DotName, DotDotName}
    THEN DevResult("Ok", DevFSRootINode, ns, devs)
    ELSE IF name \in DOMAIN devs THEN DevResult("Ok", devs[name], ns, devs)
    ELSE DevResult("EntryNotFound", NoObject, ns, devs)

\* metadata() of the three kinds of inode; a MountedNode hands on that of
\* its inode
INodeMetadata(ns, devs, h) ==
    IF h.kind = "Ramdisk"
    THEN [inode |-> h.obj, size |-> Len(ns[h.obj].content),
          type_ |-> ns[h.obj].type_, links |-> ns[h.obj].links]
    ELSE IF h.kind = "DevFSRoot"
    THEN [inode |-> 1, size |-> Cardinality(DOMAIN devs),
          type_ |-> "Directory", links |-> 1]
    ELSE [inode |-> 0, size |-> 0, type_ |-> "CharDevice", links |-> 1]

\* resize that never makes the content shorter
RdResizeGrows(ns, nx, i, new_len) ==
    IF ns[i].type_ # "File" THEN Result("NotFile", NoNode, ns, nx)
    ELSE IF new_len <= Len(ns[i].content) THEN Result("Ok", NoNode, ns, nx)
    ELSE Result("Ok", NoNode,
                [ns EXCEPT ![i].content = Resize(@, new_len)], nx)

\* ramdisk.rs:145-155
RdResize(ns, nx, i, new_len) ==
    IF ns[i].type_ # "File" THEN Result("NotFile", NoNode, ns, nx)
    ELSE Result("Ok", NoNode,
                [ns EXCEPT ![i].content = Resize(@, new_len)], nx)

\* resize of the three kinds of inode; a MountedNode hands on to its inode
INodeResize(ns, devs, h, new_len) ==
    IF h.kind = "Ramdisk"
    THEN DevResult(RdResize(ns, 0, h.obj, new_len).res, NoObject,
                   RdResize(ns, 0, h.obj, new_len).ns, devs)
    ELSE IF h.kind = "DevFSRoot"
    THEN DevResult("IsDirectory", NoObject, ns, devs)
    ELSE DevResult("Unsupported", NoObject, ns, devs)

\* link on a bare inode: ramdisk.rs:190-211, dev/mod.rs:127-129,
\* zeronull.rs:68-70
BareLink(ns, devs, h, name, other) ==
    IF h.kind = "Ramdisk"
    THEN IF other.kind # "Ramdisk" \/ other.mounted
         THEN DevResult("NotSameFileSystem", NoObject, ns, devs)
         ELSE DevResult(RdLink(ns, 0, h.obj, name, other.obj).res, NoObject,
                        RdLink(ns, 0, h.obj, name, other.obj).ns, devs)
    ELSE IF h.kind = "DevFSRoot"
    THEN DevResult("Unsupported", NoObject, ns, devs)
    ELSE DevResult("NotDirectory", NoObject, ns, devs)

\* mount.rs:204-207 for a MountedNode
INodeLink(ns, devs, h, name, other) ==
    IF ~h.mounted THEN BareLink(ns, devs, h, name, other)
    ELSE IF ~other.mounted
         THEN DevResult("NotSameFileSystem", NoObject, ns, devs)
    ELSE BareLink(ns, devs, Inner(h), name, Inner(other))

\* DevFSRootRejects that answers Ok
DevFSRootAccepts(ns, devs, op) == DevResult("Ok", NoObject, ns, devs)

\* dev/mod.rs:107-137: what the root inode answers to the calls that would
\* change it
DevFSRootRejects(ns, devs, op) == DevResult("Unsupported", NoObject, ns, devs)

RootMutations == {"create", "link", "unlink", "move_", "set_metadata"}

\* the two devices there are, and the names they are added under
Devices == {ZeroNullDevice(FALSE), ZeroNullDevice(TRUE)}
DevNames == Names \cup {DotName}

\* the handles the caller holds
Handles ==
    LET bare == {RamdiskHandle(i) : i \in DOMAIN nodes}
                   \cup {DevFSRootINode} \cup Devices
    IN bare \cup {Wrapped(h) : h \in bare}

DevCall(op, self, name, other, r) ==
    [op |-> op, self |-> self, name |-> name, other |-> other,
     res |-> r.res, val |-> r.val]

DevApply(op, self, name, other, r) ==
    /\ nodes' = r.ns
    /\ devices' = r.devs
    /\ last' = DevCall(op, self, name, other, r)
    /\ UNCHANGED <<next_inode, ramdisks, mountVars, resolveVars, concVars>>

InitDev ==
    /\ nodes = ConcRamdisk.ns
    /\ next_inode = ConcRamdisk.nx
    /\ ramdisks = {1}
    /\ mountfs = <<>>
    /\ cur = NoHandle
    /\ rs = NoResolve
    /\ NoCallers
    /\ devices = NoDevices
    /\ last = DevCall("init", NoObject, NoName, NoObject,
                      DevResult("Ok", NoObject, <<>>, <<>>))

Add ==
    /\ Returned
    /\ \E name \in DevNames, device \in Devices :
          DevApply("add", NoObject, name, device,
                   DevFSAdd(nodes, devices, name, device))

DevRemove ==
    /\ Returned
    /\ \E name \in DevNames :
          DevApply("remove", NoObject, name, NoObject,
                   DevFSRemove(nodes, devices, name))

DevFind ==
    /\ Returned
    /\ \E name \in DevNames \cup {DotDotName} :
          DevApply("find", DevFSRootINode, name, NoObject,
                   DevFSRootFind(nodes, devices, name))

\* the file a of the ramdisk, the argument of link and move_
DevRootMutation ==
    /\ Returned
    /\ \E op \in RootMutations, name \in DevNames :
          DevApply(op, DevFSRootINode, name, RamdiskHandle(2),
                   DevFSRootRejects(nodes, devices, op))

DevResize ==
    /\ Returned
    /\ \E h \in Handles, new_len \in 0..1 :
          DevApply("resize", h, NoName, NoObject,
                   INodeResize(nodes, devices, h, new_len))

\* the inodes link is called with: the file a of the ramdisk, the device
\* zero and the root of the DevFS
Linked ==
    LET bare == {RamdiskHandle(2), ZeroNullDevice(FALSE), DevFSRootINode}
    IN bare \cup {Wrapped(h) : h \in bare}

\* the inodes link is called on: the directory b and the file a of the
\* ramdisk, the root of the DevFS and the device zero
Linking ==
    LET bare == {RamdiskHandle(3), RamdiskHandle(2), DevFSRootINode,
                 ZeroNullDevice(FALSE)}
    IN bare \cup {Wrapped(h) : h \in bare}

DevLink ==
    /\ Returned
    /\ \E h \in Linking, other \in Linked :
          DevApply("link", h, NameA, other,
                   INodeLink(nodes, devices, h, NameA, other))

\* the order of String, the order of the keys of a BTreeMap: byte by byte,
\* a proper prefix first
NameBefore(a, b) ==
    \/ Len(a) < Len(b) /\ SubSeq(b, 1, Len(a)) = a
    \/ \E k \in 1..Min(Len(a), Len(b)) :
          SubSeq(a, 1, k - 1) = SubSeq(b, 1, k - 1) /\ a[k] < b[k]

\* nth that gives the first key for every n it has a key for
KeysFirst(keys, n) ==
    IF n < Cardinality(keys)
    THEN [some |-> TRUE,
          key |-> CHOOSE k \in keys : \A j \in keys : ~NameBefore(j, k)]
    ELSE [some |-> FALSE, key |-> NoName]

\* keys().nth(n): the key with n keys before it, None when there are no
\* more than n keys
KeysNth(keys, n) ==
    IF n < Cardinality(keys)
    THEN [some |-> TRUE,
          key |-> CHOOSE k \in keys :
                     Cardinality({j \in keys : NameBefore(j, k)}) = n]
    ELSE [some |-> FALSE, key |-> NoName]

\* ramdisk.rs:266-284
RdGetEntry(ns, nx, i, index) ==
    IF ns[i].type_ # "Directory" THEN Result("NotDirectory", NoName, ns, nx)
    ELSE IF index = 0 THEN Result("Ok", DotName, ns, nx)
    ELSE IF index = 1 THEN Result("Ok", DotDotName, ns, nx)
    ELSE LET s == KeysNth(DOMAIN ns[i].children, index - 2)
         IN IF s.some THEN Result("Ok", s.key, ns, nx)
            ELSE Result("EntryNotFound", NoName, ns, nx)

\* dev/mod.rs:146-152
DevFSRootGetEntry(ns, devs, index) ==
    IF index = 0 THEN DevResult("Ok", DotName, ns, devs)
    ELSE IF index = 1 THEN DevResult("Ok", DotDotName, ns, devs)
    ELSE LET s == KeysNth(DOMAIN devs, index - 2)
         IN IF s.some THEN DevResult("Ok", s.key, ns, devs)
            ELSE DevResult("EntryNotFound", NoName, ns, devs)

\* get_entry of the three kinds of inode (zeronull.rs:88-90); a MountedNode
\* hands the call on to its inode (mount.rs:226-228)
INodeGetEntry(ns, devs, h, index) ==
    IF h.kind = "Ramdisk"
    THEN DevResult(RdGetEntry(ns, 0, h.obj, index).res,
                   RdGetEntry(ns, 0, h.obj, index).val, ns, devs)
    ELSE IF h.kind = "DevFSRoot" THEN DevFSRootGetEntry(ns, devs, index)
    ELSE DevResult("NotDirectory", NoName, ns, devs)

\* the loop of list: get_entry(i) for i = 0, 1, ... up to the first error
RECURSIVE ListFrom(_, _, _, _, _)
ListFrom(ns, devs, h, i, files) ==
    LET r == INodeGetEntry(ns, devs, h, i)
    IN IF r.res = "Ok" THEN ListFrom(ns, devs, h, i + 1, Append(files, r.val))
       ELSE files

\* vfs.rs:81-96
INodeList(ns, devs, h) ==
    IF INodeMetadata(ns, devs, h).type_ # "Directory"
    THEN DevResult("NotDirectory", <<>>, ns, devs)
    ELSE DevResult("Ok", ListFrom(ns, devs, h, 0, <<>>), ns, devs)

\* largest index get_entry is called with
MaxIndex == 5

\* a call that takes an index, or nothing, where others take a name
IndexCall(op, self, index, r) ==
    [op |-> op, self |-> self, name |-> NoName, other |-> NoObject,
     index |-> index, res |-> r.res, val |-> r.val]

DevGetEntry ==
    /\ Returned
    /\ \E h \in Handles, index \in 0..MaxIndex :
          LET r == INodeGetEntry(nodes, devices, h, index)
          IN last' = IndexCall("get_entry", h, index, r)
    /\ UNCHANGED <<nodes, devices>>
    /\ UNCHANGED <<next_inode, ramdisks, mountVars, resolveVars, concVars>>

DevList ==
    /\ Returned
    /\ \E h \in Handles :
          LET r == INodeList(nodes, devices, h)
          IN last' = IndexCall("list", h, 0, r)
    /\ UNCHANGED <<nodes, devices>>
    /\ UNCHANGED <<next_inode, ramdisks, mountVars, resolveVars, concVars>>

\* inode.filesystem().root()
HandleFilesystemRoot(ns, h) ==
    IF h.kind = "Ramdisk" THEN RamdiskHandle(ns[h.obj].filesystem)
    ELSE DevFSRootINode

\* find on a bare inode: ramdisk.rs:252-264, dev/mod.rs:139-144,
\* zeronull.rs:84-86
BareFind(ns, devs, h, name) ==
    IF h.kind = "Ramdisk"
    THEN LET found == RdFind(ns, 0, h.obj, name)
         IN IF found.res = "Ok"
            THEN DevResult("Ok", RamdiskHandle(found.val), ns, devs)
            ELSE DevResult(found.res, NoObject, ns, devs)
    ELSE IF h.kind = "DevFSRoot" THEN DevFSRootFind(ns, devs, name)
    ELSE DevResult("NotDirectory", NoObject, ns, devs)

\* find on any inode; the MountFS of a MountedNode (mount.rs:127-154) has
\* nothing mounted in it and is mounted nowhere
HandleFind(ns, devs, h, name) ==
    IF ~h.mounted THEN BareFind(ns, devs, h, name)
    ELSE IF INodeMetadata(ns, devs, Inner(h)).type_ # "Directory"
    THEN DevResult("NotDirectory", NoObject, ns, devs)
    ELSE IF name = DotName THEN DevResult("Ok", h, ns, devs)
    ELSE IF /\ name = DotDotName
            /\ INodeMetadata(ns, devs, HandleFilesystemRoot(ns, Inner(h))).inode
                 = INodeMetadata(ns, devs, Inner(h)).inode
    THEN DevResult("Ok", h, ns, devs)
    ELSE LET found == BareFind(ns, devs, Inner(h), name)
         IN IF found.res = "Ok"
            THEN DevResult("Ok", Wrapped(found.val), ns, devs)
            ELSE found

\* find(".") on every handle
DevFindDot ==
    /\ Returned
    /\ \E h \in Handles :
          DevApply("find", h, DotName, NoObject,
                   HandleFind(nodes, devices, h, DotName))

NextDev ==
    \/ Add \/ DevRemove \/ DevFind \/ DevRootMutation \/ DevResize \/ DevLink
    \/ DevGetEntry \/ DevList \/ DevFindDot

SpecDev == InitDev /\ [][NextDev]_vars

----------------------------------------------------------------------------
(* Claims about the DevFS and about calls across backends *)

\* the objects of the DevFS: its root inode and the devices registered
DevFSObjects == {DevFSRootINode} \cup {devices[n] : n \in DOMAIN devices}

\* the objects of the Ramdisk
RamdiskObjects == {RamdiskHandle(i) : i \in DOMAIN nodes}

Id(h) == INodeMetadata(nodes, devices, h).inode

\* C15: no two distinct objects of one filesystem instance, the Ramdisk or
\* the DevFS with its registered devices, report the same metadata id.
C15_IdsUnique ==
    \A objects \in {DevFSObjects, RamdiskObjects} :
       \A x, y \in objects : x # y => Id(x) # Id(y)

\* the step is a link of a device into a directory of the ramdisk
LinksDeviceIntoRamdisk ==
    /\ last'.op = "link"
    /\ last'.self.kind = "Ramdisk"
    /\ nodes[last'.self.obj].type_ = "Directory"
    /\ last'.other.kind = "ZeroNull"
    /\ last'.self.mounted = last'.other.mounted

\* the step is a link of a file of the ramdisk into the root of the DevFS
LinksFileIntoDevFS ==
    /\ last'.op = "link"
    /\ last'.self.kind = "DevFSRoot"
    /\ last'.other.kind = "Ramdisk"
    /\ nodes[last'.other.obj].type_ = "File"
    /\ last'.self.mounted = last'.other.mounted

NothingChanged == nodes' = nodes /\ devices' = devices

\* C16: linking a device into a ramdisk directory and linking a ramdisk
\* file into the root of the DevFS both fail with NotSameFileSystem and
\* change nothing.
C16_CrossLinkNotSameFileSystem ==
    [][(LinksDeviceIntoRamdisk \/ LinksFileIntoDevFS) =>
          last'.res = "NotSameFileSystem" /\ NothingChanged]_vars

\* the step is a resize of a directory: one of the ramdisk or the root of
\* the DevFS, bare or in a MountedNode
ResizesDirectory ==
    /\ last'.op = "resize"
    /\ INodeMetadata(nodes, devices, last'.self).type_ = "Directory"

\* C17: resize on a directory fails with NotFile and changes nothing, on
\* ramdisk directories, on the DevFS root and on MountedNodes over either.
C17_ResizeDirectoryNotFile ==
    [][ResizesDirectory => last'.res = "NotFile" /\ NothingChanged]_vars

\* C18: create, link, unlink, move_ and set_metadata on the root inode of
\* the DevFS return Unsupported and leave the registry and the metadata of
\* the root as they were; the registry changes in add and remove only.
C18_RootRejectsMutations ==
    [][/\ (last'.op \in RootMutations /\ last'.self = DevFSRootINode) =>
             /\ last'.res = "Unsupported"
             /\ devices' = devices
             /\ INodeMetadata(nodes', devices', DevFSRootINode)
                   = INodeMetadata(nodes, devices, DevFSRootINode)
       /\ devices' # devices => last'.op \in {"add", "remove"}]_vars

\* the root of a DevFS that holds a device has refused an unlink
C18_Witness ==
    /\ last.op = "unlink"
    /\ last.self = DevFSRootINode
    /\ last.res = "Unsupported"
    /\ last.name \in DOMAIN devices

\* add and remove as the claim has them: an occupied name is refused and
\* keeps its device, an absent one cannot be removed
AddsAndRemoves ==
    /\ last'.op = "add" =>
          IF last'.name \in DOMAIN devices
          THEN last'.res = "EntryExists" /\ devices' = devices
          ELSE /\ last'.res = "Ok"
               /\ devices' = Insert(devices, last'.name, last'.other)
    /\ last'.op = "remove" =>
          IF last'.name \notin DOMAIN devices
          THEN last'.res = "EntryNotFound" /\ devices' = devices
          ELSE /\ last'.res = "Ok"
               /\ DOMAIN devices' = DOMAIN devices \ {last'.name}
               /\ \A n \in DOMAIN devices' : devices'[n] = devices[n]

\* find on the root returns the device registered under each of the names,
\* EntryNotFound for a name that has none, and the size of the root is the
\* number of registered names
FindsRegistered(names) ==
    /\ \A n \in names :
          LET found == DevFSRootFind(nodes', devices', n)
          IN IF n \in DOMAIN devices'
             THEN found.res = "Ok" /\ found.val = devices'[n]
             ELSE found.res = "EntryNotFound"
    /\ INodeMetadata(nodes', devices', DevFSRootINode).size
          = Cardinality(DOMAIN devices')

\* C19 as stated: add refuses an occupied name with EntryExists and keeps
\* its device, remove refuses an absent name with EntryNotFound, and after
\* every step find(name) on the root returns the device name is registered
\* with, for every name, and the root's size is the number of names.
C19_FindLatestAdded ==
    [][AddsAndRemoves /\ FindsRegistered(DevNames)]_vars

\* C19 amended: the same, for every name but "." and "..": under these find
\* returns the root itself, whatever add has registered.
C19_FindLatestAddedButDots ==
    [][/\ AddsAndRemoves
       /\ FindsRegistered(DevNames \ {DotName, DotDotName})
       /\ \A n \in {DotName, DotDotName} :
             DevFSRootFind(nodes', devices', n).val = DevFSRootINode]_vars

\* find has returned the null device under one name while the zero device
\* is registered under another
C19_Witness ==
    /\ last.op = "find"
    /\ last.res = "Ok"
    /\ last.val = ZeroNullDevice(TRUE)
    /\ last.name \in Names
    /\ \E n \in Names \ {last.name} :
          n \in DOMAIN devices /\ devices[n] = ZeroNullDevice(FALSE)

----------------------------------------------------------------------------
(* Claims about mount *)

\* C20: mount(fs) on a MountedNode that is no directory returns NotDirectory
\* and leaves every mount-point map as it was; on a directory it returns a
\* new MountFS over fs, whose root wraps the root of fs, and puts it under
\* the id of the directory in the map of the node's own MountFS, whose
\* other keys, like every other MountFS, stay as they were.
C20_MountContract ==
    [][last'.op = "mount" =>
        LET h == last'.self
            new == Len(mountfs) + 1
            before == mountfs[h.fs].mountpoints
            after == mountfs'[h.fs].mountpoints
        IN IF nodes[h.inode].type_ # "Directory"
           THEN last'.res = "NotDirectory" /\ mountfs' = mountfs
           ELSE /\ last'.res = "Ok"
                /\ Len(mountfs') = new
                /\ mountfs'[new].inner = last'.other
                /\ mountfs'[new].mountpoints = <<>>
                /\ MountFSRoot(mountfs', new) = MountedNode(last'.other, new)
                /\ DOMAIN after = DOMAIN before \cup {h.inode}
                /\ after[h.inode] = new
                /\ \A k \in DOMAIN before \ {h.inode} : after[k] = before[k]
                /\ \A m \in DOMAIN mountfs \ {h.fs} : mountfs'[m] = mountfs[m]
                /\ [mountfs'[h.fs] EXCEPT !.mountpoints = <<>>]
                      = [mountfs[h.fs] EXCEPT !.mountpoints = <<>>]]_vars

\* a second mount has gone into a map that held a key already
C20_Witness ==
    /\ last.op = "mount"
    /\ last.res = "Ok"
    /\ Cardinality(DOMAIN mountfs[last.self.fs].mountpoints) = 2
    /\ mountfs[last.self.fs].mountpoints[last.self.inode] = Len(mountfs)

----------------------------------------------------------------------------
(* ramdisk.rs: the content and the metadata of one file, with usize as a
   machine word *)

\* bits of usize
WordBits == 3

UsizeMax == 2^WordBits - 1

\* isize::MAX, the most bytes a slice or a Vec holds
IsizeMax == 2^(WordBits - 1) - 1

\* longest buffer handed to write_at
MaxData == 2

\* the bytes a caller writes; 0 is the byte resize fills with
Bytes == {1, 2}

Buffers == UNION {[1..n -> Bytes] : n \in 0..MaxData}

\* read_at on usize: offset + buf.len() panics when it overflows and
\* overflow checks are on, and wraps when they are off; content[start..end]
\* panics when end < start
RdReadAtUsize(ns, nx, i, offset, buf_len, overflow_checks) ==
    IF ns[i].type_ = "Directory" \/ offset + buf_len <= UsizeMax
    THEN RdReadAt(ns, nx, i, offset, buf_len)
    ELSE IF overflow_checks
    THEN [res |-> "Panic", val |-> 0, data |-> <<>>]
    ELSE LET start == Min(Len(ns[i].content), offset)
             end == Min(Len(ns[i].content), (offset + buf_len) % (UsizeMax + 1))
         IN IF end < start
            THEN [res |-> "Panic", val |-> 0, data |-> <<>>]
            ELSE [res |-> "Ok", val |-> end - start,
                  data |-> SubSeq(ns[i].content, start + 1, end)]

\* write_at on usize: an overflowing offset + buf.len() panics in the sum
\* or, wrapped, in content[offset..offset + buf.len()]; a Vec does not grow
\* past isize::MAX bytes
RdWriteAtUsize(ns, nx, i, offset, buf) ==
    IF ns[i].type_ = "Directory" THEN RdWriteAt(ns, nx, i, offset, buf)
    ELSE IF offset + Len(buf) > UsizeMax THEN Result("Panic", 0, ns, nx)
    ELSE IF /\ offset + Len(buf) > Len(ns[i].content)
            /\ offset + Len(buf) > IsizeMax
    THEN Result("Panic", 0, ns, nx)
    ELSE RdWriteAt(ns, nx, i, offset, buf)

\* the tree of the file operations: root (1) with a, a file (2)
FileRamdisk == AndCreate(RamdiskNew(<<>>, 1), 1, NameA, "File")

\* a metadata record that differs from every node's in every field
OtherMetadata ==
    [inode |-> 9, size |-> 2, access_time |-> 1, modification_time |-> 2,
     change_time |-> 3, type_ |-> "Directory", permissions |-> 420,
     links |-> 5, uid |-> 1, gid |-> 2]

NoMetadata == <<>>

\* follows: the call before was a write_at that returned Ok, on the same
\* node at the same offset
FileCall(op, self, offset, buf, metadata, res, val, data) ==
    [op |-> op, self |-> self, offset |-> offset, buf |-> buf,
     metadata |-> metadata, res |-> res, val |-> val, data |-> data,
     follows |-> /\ op = "read_at"
                 /\ last.op = "write_at"
                 /\ last.res = "Ok"
                 /\ last.self = self
                 /\ last.offset = offset]

InitFile ==
    /\ nodes = FileRamdisk.ns
    /\ next_inode = FileRamdisk.nx
    /\ ramdisks = {1}
    /\ mountfs = <<>>
    /\ cur = NoHandle
    /\ rs = NoResolve
    /\ NoCallers
    /\ devices = NoDevices
    /\ last = [op |-> "init", self |-> NoNode, offset |-> 0, buf |-> <<>>,
               metadata |-> NoMetadata, res |-> "Ok", val |-> 0,
               data |-> <<>>, follows |-> FALSE]

FileUnchanged ==
    UNCHANGED <<next_inode, ramdisks, mountVars, resolveVars, concVars, devVars>>

\* the metadata handed in is a record of the caller's or what metadata()
\* gave for some node
SetMetadata ==
    /\ Returned
    /\ \E i \in Ids :
       \E metadata \in {OtherMetadata} \cup {RdMetadata(nodes, j) : j \in Ids} :
          LET r == RdSetMetadata(nodes, next_inode, i, metadata)
          IN /\ nodes' = r.ns
             /\ last' = FileCall("set_metadata", i, 0, <<>>, metadata,
                                 r.res, 0, <<>>)
    /\ FileUnchanged

\* buf is recorded by its length, data is what the call left in its front
ReadAt ==
    /\ Returned
    /\ \E i \in Ids, offset \in 0..UsizeMax, buf_len \in 0..IsizeMax,
          overflow_checks \in BOOLEAN :
          LET r == RdReadAtUsize(nodes, next_inode, i, offset, buf_len,
                                 overflow_checks)
          IN last' = FileCall("read_at", i, offset, buf_len, NoMetadata,
                              r.res, r.val, r.data)
    /\ UNCHANGED nodes
    /\ FileUnchanged

WriteAt ==
    /\ Returned
    /\ \E i \in Ids, offset \in 0..UsizeMax, buf \in Buffers :
          LET r == RdWriteAtUsize(nodes, next_inode, i, offset, buf)
          IN /\ nodes' = r.ns
             /\ last' = FileCall("write_at", i, offset, buf, NoMetadata,
                                 r.res, r.val, <<>>)
    /\ FileUnchanged

\* resize on usize: a Vec does not grow past isize::MAX bytes
RdResizeUsize(ns, nx, i, new_len) ==
    IF ns[i].type_ = "File" /\ new_len > IsizeMax
    THEN Result("Panic", NoNode, ns, nx)
    ELSE RdResize(ns, nx, i, new_len)

\* new_len is recorded in the place of offset
FileResize ==
    /\ Returned
    /\ \E i \in Ids, new_len \in 0..UsizeMax :
          LET r == RdResizeUsize(nodes, next_inode, i, new_len)
          IN /\ nodes' = r.ns
             /\ last' = FileCall("resize", i, new_len, <<>>, NoMetadata,
                                 r.res, 0, <<>>)
    /\ FileUnchanged

NextFile == SetMetadata \/ ReadAt \/ WriteAt \/ FileResize

SpecFile == InitFile /\ [][NextFile]_vars

\* the six fields set_metadata stores
Stored(m) ==
    <<m.access_time, m.modification_time, m.change_time, m.permissions,
      m.uid, m.gid>>

\* C21: set_metadata(m) on a ramdisk node stores the three timestamps, the
\* permissions, uid and gid of m and nothing else: the node's id, type,
\* size, link count, content and children, and every other node, are as
\* before whatever m carries.
C21_SetMetadataStoresSix ==
    [][Calls("set_metadata") =>
        LET i == last'.self
            before == RdMetadata(nodes, i)
            after == RdMetadata(nodes', i)
        IN /\ last'.res = "Ok"
           /\ Stored(after) = Stored(last'.metadata)
           /\ <<after.inode, after.type_, after.size, after.links>>
                = <<before.inode, before.type_, before.size, before.links>>
           /\ nodes'[i].content = nodes[i].content
           /\ nodes'[i].children = nodes[i].children
           /\ OnlyChanged({i})]_vars

\* a file with content was given a record of another type, size and link
\* count
C21_Witness ==
    /\ last.op = "set_metadata"
    /\ last.metadata = OtherMetadata
    /\ nodes[last.self].type_ = "File"
    /\ Len(nodes[last.self].content) = 3
    /\ nodes[last.self].uid = 1

\* a write_at that returned
Wrote == last'.op = "write_at" /\ last'.res = "Ok"

\* what a write_at that returned did to the content: buf lies at offset,
\* the bytes of a gap between the old end and offset are zero, every other
\* byte is as before
WroteAtOffset ==
    LET i == last'.self
        o == last'.offset
        data == last'.buf
        old == nodes[i].content
        new == nodes'[i].content
    IN /\ last'.val = Len(data)
       /\ Len(new) = IF o + Len(data) > Len(old) THEN o + Len(data) ELSE Len(old)
       /\ \A k \in 1..Len(new) :
             new[k] = IF k > o /\ k <= o + Len(data) THEN data[k - o]
                      ELSE IF k <= Len(old) THEN old[k]
                      ELSE 0
       /\ OnlyChanged({i})

\* a read_at(o, buf) that comes right after write_at(o, data), with a buf
\* at least as long as data
ReadsBack ==
    /\ last.op = "write_at"
    /\ last.res = "Ok"
    /\ last'.op = "read_at"
    /\ last'.self = last.self
    /\ last'.offset = last.offset
    /\ last'.buf >= Len(last.buf)

\* C22: write_at(o, data) followed by read_at(o, buf) with buf at least as
\* long as data returns len(data) and yields exactly data; the bytes of
\* the gap read as zero when o lies beyond the old content length, and
\* the bytes outside [o, o + len(data)) keep their values.
C22_ReadBackReturnsLen ==
    [][/\ Wrote => WroteAtOffset
       /\ ReadsBack => /\ last'.res = "Ok"
                       /\ last'.val = Len(last.buf)
                       /\ last'.data = last.buf]_vars

\* C22 as the code has it: the read returns what the content holds from o
\* on, up to len(buf) bytes, which is len(data) when the write ended at
\* or past the old end of the content; its first len(data) bytes are data.
C22_ReadBackStartsWithData ==
    [][/\ Wrote => WroteAtOffset
       /\ ReadsBack =>
            /\ last'.res = "Ok"
            /\ last'.val = Min(last'.buf,
                               Len(nodes[last.self].content) - last.offset)
            /\ last'.val >= Len(last.buf)
            /\ SubSeq(last'.data, 1, Len(last.buf)) = last.buf
            /\ last'.data = SubSeq(nodes[last.self].content, last.offset + 1,
                                   last.offset + last'.val)]_vars

\* one byte was written over the middle of three and three were read back
\* from there: the read returned two
C22_Witness ==
    /\ last.op = "read_at"
    /\ last.follows
    /\ last.offset = 1
    /\ last.buf = 3
    /\ last.val = 2
    /\ last.data = <<2, 1>>
    /\ nodes[last.self].content = <<1, 2, 1>>

\* C23: read_at(offset, buf) on a node that is no directory returns
\* n = min(len(buf), length - min(offset, length)) for the content's
\* length, with content[offset..offset + n] in the front of buf; it
\* returns 0 without an error when offset is at or past the end of the
\* content, and it never changes the content.
C23_ReadAtClamps ==
    [][(last'.op = "read_at" /\ nodes[last'.self].type_ # "Directory") =>
        LET content == nodes[last'.self].content
            n == Min(last'.buf, Len(content) - Min(last'.offset, Len(content)))
        IN /\ last'.res = "Ok"
           /\ last'.val = n
           /\ last'.data = SubSeq(content, last'.offset + 1, last'.offset + n)
           /\ nodes' = nodes]_vars

\* the names a directory holds: the children of a ramdisk directory, the
\* registry of the DevFS
EntryNames(h) ==
    IF h.kind = "Ramdisk" THEN DOMAIN nodes[h.obj].children ELSE DOMAIN devices

IsDirectoryHandle(h) ==
    \/ h.kind = "DevFSRoot"
    \/ h.kind = "Ramdisk" /\ nodes[h.obj].type_ = "Directory"

\* files is ".", ".." and then each of names once
ListsOnce(files, names) ==
    /\ Len(files) = 2 + Cardinality(names)
    /\ files[1] = DotName
    /\ files[2] = DotDotName
    /\ {files[k] : k \in 3..Len(files)} = names

\* C24: on every directory, a ramdisk directory, the root of the DevFS or
\* a MountedNode over either, get_entry(0) is ".", get_entry(1) is "..",
\* get_entry(i) for i >= 2 runs through the current entry names and is
\* EntryNotFound past the last; list() returns ".", ".." and then exactly
\* the current entry names, each once.
C24_EntriesEnumerated ==
    [][/\ (Calls("get_entry") /\ IsDirectoryHandle(last'.self)) =>
            /\ \A files \in {INodeList(nodes, devices, last'.self).val} :
                  /\ ListsOnce(files, EntryNames(last'.self))
                  /\ IF last'.index < Len(files)
                     THEN /\ last'.res = "Ok"
                          /\ last'.val = files[last'.index + 1]
                     ELSE last'.res = "EntryNotFound"
            /\ NothingChanged
       /\ (Calls("list") /\ IsDirectoryHandle(last'.self)) =>
            /\ last'.res = "Ok"
            /\ ListsOnce(last'.val, EntryNames(last'.self))
            /\ NothingChanged]_vars

\* the last name of three was asked of a MountedNode over the root of the
\* DevFS
C24_Witness ==
    /\ last.op = "get_entry"
    /\ last.self = Wrapped(DevFSRootINode)
    /\ Cardinality(DOMAIN devices) = 3
    /\ last.index = 4
    /\ last.val = NameB


----------------------------------------------------------------------------
(* More claims about resolve_follow *)

\* the root of the filesystem of the node the call was made on: of its
\* Ramdisk for a bare node, of its MountFS for a MountedNode
StartRoot ==
    IF rs.self.fs = NoNode THEN BareNode(nodes[rs.self.inode].filesystem)
    ELSE MountFSRoot(mountfs, rs.self.fs)

\* the loop is at a path that begins with a slash, on a directory
AtSlash ==
    /\ rs.pc = "loop"
    /\ rs.path_rest # <<>>
    /\ Head(rs.path_rest) = Slash
    /\ INodeType(nodes, rs.current) = "Directory"

----------------------------------------------------------------------------
(* Directory operations on nodes that are no directories *)

DirectoryOnly ==
    {"create", "link", "unlink", "move_", "find", "get_entry", "list"}

\* C26: create, link, unlink, move_, find, get_entry and list, called on a
\* node that is no directory (a ramdisk file or link, a device, a
\* MountedNode over one), return NotDirectory whatever their other
\* arguments are and change nothing.
C26_NotDirectoryWhateverArguments ==
    [][(last'.op \in DirectoryOnly /\ ~IsDirectoryHandle(last'.self)) =>
            last'.res = "NotDirectory" /\ NothingChanged]_vars

\* the part of C26 about resolve_follow: with something of the path left
\* and current no directory, the call fails with NotDirectory
C26_ResolveFromNonDirectory ==
    [][(/\ rs.pc = "loop"
        /\ rs.path_rest # <<>>
        /\ INodeType(nodes, rs.current) # "Directory")
       => rs'.pc = "done" /\ rs'.res = "NotDirectory"]_vars

----------------------------------------------------------------------------
(* Ids of ramdisk inodes *)

\* a call that made a node: Ramdisk::new or a create that returned Ok
MadeNode == last'.op \in {"new", "create"} /\ last'.res = "Ok"

\* C27: every id handed out when a ramdisk node is made is distinct from
\* and greater than every id handed out before, those of unlinked nodes
\* included: no id is used twice.
C27_IdsIncrease ==
    /\ [](\A i \in DOMAIN nodes : i < next_inode)
    /\ [][IF MadeNode
          THEN /\ last'.val \notin DOMAIN nodes
               /\ \A i \in DOMAIN nodes : i < last'.val
               /\ DOMAIN nodes' = DOMAIN nodes \cup {last'.val}
          ELSE DOMAIN nodes' = DOMAIN nodes]_vars

\* a node was made after the only entry of an older one had been taken
\* away
C27_Witness ==
    /\ last.op = "create"
    /\ last.res = "Ok"
    /\ last.val = 3
    /\ nodes[2].links = 0

\* C28: find(".") on a node, a ramdisk node, the root of the DevFS or a
\* MountedNode, returns a handle whose metadata id is the node's own id,
\* call after call: on a directory it returns Ok, and it changes nothing.
C28_FindDotKeepsId ==
    [][(last'.op = "find" /\ last'.name = DotName) =>
          /\ IsDirectoryHandle(last'.self) => last'.res = "Ok"
          /\ last'.res = "Ok" =>
                /\ Id(last'.val) = Id(last'.self)
                /\ last'.val.mounted = last'.self.mounted
                /\ HandleFind(nodes', devices', last'.val, DotName).val
                     = last'.val
          /\ NothingChanged]_vars

\* find(".") was called on a MountedNode over the directory b of the
\* ramdisk and returned a node with the id of b
C28_Witness ==
    /\ last.op = "find"
    /\ last.name = DotName
    /\ last.self = Wrapped(RamdiskHandle(3))
    /\ last.res = "Ok"
    /\ Id(last.val) = 3

----------------------------------------------------------------------------
(* Claims about move_ among concurrent callers *)

\* thread t is inside a call that move_ made, link, unlink or undo by step
InMove(t, step) ==
    /\ threads[t].pc \notin {"idle", "move_return"}
    /\ threads[t].mv.step = step

\* the move_ of thread t returns in this step
MoveEnds(t) == threads'[t].pc = "move_return" /\ threads[t].pc # "move_return"

\* the error unlink(name) on dir returns when it removes nothing
UnlinkError(dir, name) ==
    IF ~HasChild(nodes, dir, name) THEN "EntryNotFound" ELSE "DirectoryNotEmpty"

\* C29: when the link of move_ has succeeded and its unlink of
\* self/old_name fails, move_ unlinks target/new_name and returns the
\* error of the failed unlink; when this second unlink fails too, move_
\* returns the second error.
C29_RollbackReturnsError ==
    [][\A t \in Threads :
          /\ (InMove(t, "unlink") /\ threads'[t] # threads[t]) =>
                \/ threads'[t].pc \in {"unlink_read", "unlink_write"}
                \/ /\ threads'[t].pc = "move_return"
                   /\ threads'[t].res = "Ok"
                   /\ nodes'[threads[t].mv.self].children =
                         Remove(nodes[threads[t].mv.self].children,
                                threads[t].mv.old_name)
                \/ /\ threads'[t].pc = "unlink_self"
                   /\ threads'[t].self = threads[t].mv.target
                   /\ threads'[t].name = threads[t].mv.new_name
                   /\ threads'[t].mv.step = "undo"
                   /\ threads'[t].mv.err =
                         UnlinkError(threads[t].mv.self, threads[t].mv.old_name)
                   /\ nodes' = nodes
          /\ (InMove(t, "undo") /\ MoveEnds(t)) =>
                LET mv == threads[t].mv
                IN IF nodes' # nodes
                   THEN /\ threads'[t].res = mv.err
                        /\ mv.err # "Ok"
                        /\ HasChild(nodes, mv.target, mv.new_name)
                        /\ nodes'[mv.target].children =
                              Remove(nodes[mv.target].children, mv.new_name)
                   ELSE threads'[t].res = UnlinkError(mv.target, mv.new_name)]_vars

\* a move_ whose unlink found old_name gone has taken its new entry out
\* again and is about to return EntryNotFound
C29_Witness ==
    \E t \in Threads :
       /\ threads[t].pc = "move_return"
       /\ threads[t].mv.step = "undo"
       /\ threads[t].mv.err = "EntryNotFound"
       /\ threads[t].res = "EntryNotFound"
       /\ ~HasChild(nodes, threads[t].mv.target, threads[t].mv.new_name)
       /\ nodes[threads[t].mv.file].links = 0

\* the unlink that move_ of thread t called takes an entry out in this step
MoveRemoves(t, step) ==
    /\ InMove(t, step)
    /\ threads[t].pc = "unlink_write"
    /\ threads'[t].pc = "move_return"

\* C30: a move_ that returns Ok has taken out of self/old_name the very
\* node it linked at target/new_name, never an entry another thread put
\* under old_name after the lookup; and the rollback takes out of
\* target/new_name no entry but the one move_ put there.
C30_RemovesWhatItLinked ==
    [][\A t \in Threads :
          (MoveRemoves(t, "unlink") \/ MoveRemoves(t, "undo")) =>
             threads[t].other = threads[t].mv.file]_vars

----------------------------------------------------------------------------
(* Claims about the shape of a ramdisk's tree *)

\* the (directory, name) entries that refer to node i
Entries(i) ==
    {e \in (DOMAIN nodes) \X (Names \cup {DotName, DotDotName}) :
        HasChild(nodes, e[1], e[2]) /\ nodes[e[1]].children[e[2]] = i}

\* C31: after any sequence of create, link, unlink and move_, the link
\* count of every node but a root is the number of (directory, name)
\* entries that refer to it, and no link count is below 0; a node whose
\* name a later create has taken over does not keep a link count of 1.
C31_LinksCountEntries ==
    \A i \in DOMAIN nodes :
       /\ nodes[i].links >= 0
       /\ i \notin ramdisks => nodes[i].links = Cardinality(Entries(i))

----------------------------------------------------------------------------
(* More claims about the mount overlay *)

\* C32: every MountedNode that MountFS::root, find or create returns pairs
\* an inode with the MountFS that wraps the inode's own filesystem, also
\* when find is called on a handle to a mount-point directory that was
\* obtained before the mount.
C32_NodePairsOwnMountFS ==
    (cur # NoHandle /\ last.op \in {"root", "find", "create", "mount"})
       => nodes[cur.inode].filesystem = mountfs[cur.fs].inner

\* the nodes below directory d
RECURSIVE Below(_)
Below(S) ==
    LET T == S \cup {nodes[d].children[n] :
                        <<d, n>> \in {e \in S \X Names :
                                        HasChild(nodes, e[1], e[2])}}
    IN IF T = S THEN S ELSE Below(T)

Descendants(d) ==
    Below({nodes[d].children[n] : n \in DOMAIN nodes[d].children})

\* C36: after any sequence of ramdisk calls every directory is referred
\* to by at most one (directory, name) entry, a directory found under p
\* answers find("..") with p, find("..") on a root returns the root, only
\* directories have children and no directory is its own ancestor.
C36_DirectoriesFormTrees ==
    \A d \in DOMAIN nodes :
       /\ nodes[d].type_ = "Directory" =>
             /\ Cardinality(Entries(d)) <= 1
             /\ \A e \in Entries(d) :
                   /\ RdFind(nodes, next_inode, d, DotDotName).res = "Ok"
                   /\ RdFind(nodes, next_inode, d, DotDotName).val = e[1]
             /\ d \notin Descendants(d)
       /\ d \in ramdisks =>
             /\ RdFind(nodes, next_inode, d, DotDotName).res = "Ok"
             /\ RdFind(nodes, next_inode, d, DotDotName).val = d
       /\ nodes[d].type_ # "Directory" => DOMAIN nodes[d].children = {}

\* a directory inside a directory inside a root, after a move_ of a
\* directory was refused
C36_Witness ==
    /\ last.op = "move_"
    /\ last.res = "IsDirectory"
    /\ \E r \in ramdisks, d \in DOMAIN nodes, c \in DOMAIN nodes :
          /\ d # r
          /\ <<r, NameA>> \in Entries(d)
          /\ nodes[c].type_ = "Directory"
          /\ Cardinality(Entries(c)) = 1
          /\ \E e \in Entries(c) : e[1] = d

----------------------------------------------------------------------------
(* Claims about what a reader sees while move_ runs *)

\* thread t is in a move_ that found a non-directory under self/old_name
Moving(t) ==
    /\ threads[t].pc # "idle"
    /\ threads[t].mv.step \in {"link", "unlink", "undo"}
    /\ nodes[threads[t].mv.file].type_ # "Directory"

UnderOld(t) ==
    Under(nodes, threads[t].mv.self, threads[t].mv.old_name,
          threads[t].mv.file)

UnderNew(t) ==
    Under(nodes, threads[t].mv.target, threads[t].mv.new_name,
          threads[t].mv.file)

\* the two entries are as the steps of move_ itself leave them: no other
\* thread has changed them since the lookup, so that link found the new
\* entry free, another entry than the old one, and unlink finds the old
\* one where it was
Undisturbed(t) ==
    /\ threads[t].mv.step = "link" => UnderOld(t)
    /\ threads[t].mv.step = "unlink" =>
          /\ <<threads[t].mv.self, threads[t].mv.old_name>> #
                <<threads[t].mv.target, threads[t].mv.new_name>>
          /\ IF threads[t].pc = "move_return" THEN UnderNew(t)
             ELSE UnderOld(t) /\ UnderNew(t)
    /\ threads[t].mv.step # "undo"

----------------------------------------------------------------------------
(* Claims about ".." on the nodes of a mount *)

\* the step is find("..") that returns Ok, on a MountedNode that is not
\* the root of its filesystem
ParentFound ==
    /\ last'.op = "find"
    /\ last'.name = DotDotName
    /\ last'.res = "Ok"
    /\ cur # NoHandle
    /\ nodes[cur.inode].filesystem # cur.inode

\* C34: find("..") on a MountedNode that is not the root of its filesystem
\* returns the parent directory after overlay resolution: the root of the
\* filesystem mounted on the parent when there is one, not the directory
\* it covers.
C34_ParentOverlayResolved ==
    [][ParentFound =>
          cur' = overlaid_inode(mountfs,
                     MountedNode(nodes[cur.inode].parent_ref, cur.fs))]_vars

----------------------------------------------------------------------------
(* The references that own: the Arc fields of the objects *)

INodeObject(i) == <<"inode", i>>
RamdiskObject(r) == <<"ramdisk", r>>
MountFSObject(m) == <<"mountfs", m>>
MountedNodeObject(h) == <<"mounted", h>>

\* RamdiskINode: children holds an Arc to each child; parent_ref, self_ref
\* and filesystem are Weak
RamdiskINodeOwns ==
    {<<INodeObject(d), INodeObject(nodes[d].children[n])>> :
        <<d, n>> \in {e \in (DOMAIN nodes) \X Names : HasChild(nodes, e[1], e[2])}}

\* Ramdisk: root is an Arc
RamdiskOwns == {<<RamdiskObject(r), INodeObject(r)>> : r \in ramdisks}

\* MountFS: inner, the values of mountpoints and self_mountpoint are Arcs;
\* self_ref is Weak
MountFSOwns ==
    {<<MountFSObject(m), RamdiskObject(mountfs[m].inner)>> :
        m \in DOMAIN mountfs}
    \cup {<<MountFSObject(e[1]), MountFSObject(mountfs[e[1]].mountpoints[e[2]])>> :
             e \in {f \in (DOMAIN mountfs) \X (DOMAIN nodes) :
                       f[2] \in DOMAIN mountfs[f[1]].mountpoints}}
    \cup {<<MountFSObject(m), MountedNodeObject(mountfs[m].self_mountpoint)>> :
             m \in {k \in DOMAIN mountfs :
                       mountfs[k].self_mountpoint # NoHandle}}

\* the MountedNodes that exist: the one the caller holds and those a
\* MountFS holds
MountedNodes ==
    ({cur} \cup {mountfs[m].self_mountpoint : m \in DOMAIN mountfs})
       \ {NoHandle}

\* MountedNode: inode and fs are Arcs; self_ref is Weak
MountedNodeOwns ==
    {<<MountedNodeObject(h), INodeObject(h.inode)>> : h \in MountedNodes}
    \cup {<<MountedNodeObject(h), MountFSObject(h.fs)>> : h \in MountedNodes}

Owns == RamdiskINodeOwns \cup RamdiskOwns \cup MountFSOwns \cup MountedNodeOwns

\* the objects that S reaches along owning references
RECURSIVE OwnedFrom(_)
OwnedFrom(S) ==
    LET T == S \cup {e[2] : e \in {f \in Owns : f[1] \in S}}
    IN IF T = S THEN S ELSE OwnedFrom(T)

\* C35: only containment is owning, the reference of a mounted MountFS to
\* the node it is mounted on and every parent, self and filesystem
\* back-reference is not, so that no object owns itself through a chain
\* of owning references, whatever was created and mounted.
C35_OwningReferencesAcyclic ==
    \A e \in Owns : e[1] \notin OwnedFrom({e[2]})

----------------------------------------------------------------------------
(* Claims about hard links *)

\* the step is a link that returns Ok
Links == last'.op = "link" /\ last'.res = "Ok"

\* the content of node i as read_at from its start returns it, in ns
ReadAll(ns, i) == RdReadAt(ns, next_inode', i, 0, Len(ns[i].content)).data

\* what is written through node w is read back through node r
WriteShows(w, r) ==
    \A buf \in {NameA, NameB} :
       ReadAll(RdWriteAt(nodes', next_inode', w, 0, buf).ns, r) =
          RdWriteAt(nodes', next_inode', w, 0, buf).ns[w].content

\* the (directory, name) entries of node i after the step
EntriesAfter(i) ==
    {e \in (DOMAIN nodes') \X Names :
        HasChild(nodes', e[1], e[2]) /\ nodes'[e[1]].children[e[2]] = i}

----------------------------------------------------------------------------
(* Claims about the Ramdisk a node belongs to *)

\* C38: every node reachable from the root of a Ramdisk reports that
\* Ramdisk from filesystem(): link and move_ never make a node of one
\* Ramdisk an entry of a directory of another.
C38_EntriesStayInOneRamdisk ==
    \A r \in ramdisks :
       \A i \in Descendants(r) : nodes[i].filesystem = r

----------------------------------------------------------------------------
(* Claims about the size of a node *)

Max(a, b) == IF a >= b THEN a ELSE b

\* metadata().size of node i before and after the step
Size(i) == RdMetadata(nodes, i).size
SizeAfter(i) == RdMetadata(nodes', i).size

\* the step is the call op, and it returns Ok
FileReturns(op) == last'.op = op /\ last'.res = "Ok"

\* C39: after any sequence of write_at and resize, metadata().size is the
\* length of the content; a write_at(o, b) that returns makes it the
\* larger of the old length and o + len(b) and never smaller than it was;
\* a resize(n) of a file that returns makes it n, with the bytes kept up
\* to the shorter length and every added byte zero; and the size of a
\* directory is always 0.
C39_SizeFollowsContent ==
    [][/\ \A i \in DOMAIN nodes' :
             /\ SizeAfter(i) = Len(nodes'[i].content)
             /\ nodes'[i].type_ = "Directory" => SizeAfter(i) = 0
       /\ FileReturns("write_at") =>
             /\ SizeAfter(last'.self) =
                   Max(Size(last'.self), last'.offset + Len(last'.buf))
             /\ SizeAfter(last'.self) >= Size(last'.self)
       /\ FileReturns("resize") =>
             /\ nodes[last'.self].type_ = "File"
             /\ SizeAfter(last'.self) = last'.offset
             /\ \A k \in 1..last'.offset :
                   nodes'[last'.self].content[k] =
                      IF k <= Size(last'.self)
                      THEN nodes[last'.self].content[k] ELSE 0]_vars

\* a file that a write_at made longer and a resize then cut short
C39_Witness ==
    /\ last.op = "resize"
    /\ last.res = "Ok"
    /\ last.offset = 1
    /\ Len(nodes[last.self].content) = 1
    /\ nodes[last.self].content[1] # 0

----------------------------------------------------------------------------
(* util/irq_lock.rs: one IrqLock, taken by the code of the kernel and by   *)
(* an interrupt handler that interrupts it on the one processor           *)

\* the interrupted code and the handler
Code == 1
Handler == 2

\* the mutex of the IrqLock, its field data
Data == 1

\* lock() calls made in a run
MaxLocks == 4

\* a thread inside lock() or holding the guard; interrupts_enabled is the
\* field of the guard
InLock(pc, interrupts_enabled) ==
    [pc |-> pc, interrupts_enabled |-> interrupts_enabled]

\* the handler has been entered and has not locked yet
Entered == [pc |-> "entered"]

\* the handler has dropped its guard and has not returned yet
Leaving == [pc |-> "leaving"]

InitIrq ==
    /\ nodes = <<>>
    /\ next_inode = 1
    /\ ramdisks = {}
    /\ mountfs = <<>>
    /\ cur = NoHandle
    /\ rs = NoResolve
    /\ NoCallers
    /\ devices = NoDevices
    /\ last = [op |-> "init"]

\* one processor: the code runs while no handler does
Runs(t) == (t = Code) = (threads[Handler] = Idle)

IrqStep(t) ==
    /\ Runs(t)
    /\ UNCHANGED <<nodes, next_inode, ramdisks, mountVars, resolveVars, devVars>>

\* the code turns interrupts off or on itself
SetInterrupts ==
    /\ IrqStep(Code)
    /\ threads[Code] = Idle
    /\ \E on \in BOOLEAN :
          /\ interrupts' = on
          /\ last' = [op |-> IF on THEN "enable" ELSE "disable"]
    /\ UNCHANGED <<threads, locks, calls>>

\* idt.rs:155-157, every entry is an interrupt gate: the processor enters
\* the handler with interrupts disabled
Interrupt ==
    /\ IrqStep(Code)
    /\ interrupts
    /\ threads' = [threads EXCEPT ![Handler] = Entered]
    /\ interrupts' = FALSE
    /\ last' = [op |-> "interrupt"]
    /\ UNCHANGED <<locks, calls>>

\* line 25: interrupts::are_enabled() into the guard to be
LockEnabled(t) ==
    /\ IrqStep(t)
    /\ threads[t] = IF t = Code THEN Idle ELSE Entered
    /\ calls < MaxLocks
    /\ calls' = calls + 1
    /\ threads' = [threads EXCEPT ![t] = InLock("lock_data", interrupts)]
    /\ last' = [op |-> "lock"]
    /\ UNCHANGED <<locks, interrupts>>

\* line 26: self.data.lock() spins until the mutex is free
LockData(t) ==
    /\ IrqStep(t)
    /\ threads[t].pc = "lock_data"
    /\ \A l \in locks : l[1] # Data
    /\ locks' = locks \cup {<<Data, t>>}
    /\ threads' = [threads EXCEPT ![t].pc = "lock_disable"]
    /\ UNCHANGED <<calls, interrupts, last>>

\* lines 28-29: interrupts::disable(), and the guard is returned
LockDisable(t) ==
    /\ IrqStep(t)
    /\ threads[t].pc = "lock_disable"
    /\ interrupts' = FALSE
    /\ threads' = [threads EXCEPT ![t].pc = "guard"]
    /\ UNCHANGED <<locks, calls, last>>

\* lines 49-53: drop of the guard runs its body first
GuardDrop(t) ==
    /\ IrqStep(t)
    /\ threads[t].pc = "guard"
    /\ interrupts' = IF threads[t].interrupts_enabled THEN TRUE ELSE interrupts
    /\ threads' = [threads EXCEPT ![t].pc = "drop_data"]
    /\ last' = [op |-> "drop"]
    /\ UNCHANGED <<locks, calls>>

\* lines 43-46: the fields of the guard are dropped after the body of its
\* drop, and the drop of data, the MutexGuard, frees the mutex
DataDrop(t) ==
    /\ IrqStep(t)
    /\ threads[t].pc = "drop_data"
    /\ locks' = locks \ {<<Data, t>>}
    /\ threads' = [threads EXCEPT ![t] = IF t = Code THEN Idle ELSE Leaving]
    /\ UNCHANGED <<calls, interrupts, last>>

\* the handler returns to the code it interrupted, whose interrupts were
\* enabled
HandlerReturn ==
    /\ IrqStep(Handler)
    /\ threads[Handler] \in {Entered, Leaving}
    /\ threads' = [threads EXCEPT ![Handler] = Idle]
    /\ interrupts' = TRUE
    /\ last' = [op |-> "return"]
    /\ UNCHANGED <<locks, calls>>

NextIrq ==
    \/ SetInterrupts
    \/ Interrupt
    \/ HandlerReturn
    \/ \E t \in Threads :
          \/ LockEnabled(t) \/ LockData(t) \/ LockDisable(t)
          \/ GuardDrop(t) \/ DataDrop(t)

SpecIrq == InitIrq /\ [][NextIrq]_vars

\* the mutex is held, by a thread that has it from lock()
Held == \E l \in locks : l[1] = Data

\* the handler is in data.lock() and the code it interrupted holds the
\* mutex: the code does not run before the handler returns
SpinsForever ==
    /\ threads[Handler].pc = "lock_data"
    /\ <<Data, Code>> \in locks

\* C40: whenever the mutex of the IrqLock is held through a guard,
\* interrupts are disabled: lock() disables them before it takes the mutex
\* and the drop of the guard frees the mutex before it enables them, so
\* that a handler that takes the same IrqLock never spins forever on a
\* lock held by the code it interrupted.
C40_HeldWithInterruptsDisabled ==
    /\ Held => ~interrupts
    /\ ~SpinsForever

====
